---- MODULE Spec2Model ----
(***************************************************************************)
(* Model of the db-builder store (store/dbStore.ts): the schema graph      *)
(* (tables, columns, relations), the relation engine, and the undo/redo    *)
(* history.  Every store operation is a pure operator from a store value   *)
(* to a store value, translated from its zustand `set` callback; an action *)
(* applies one operator to the current store.                              *)
(*                                                                         *)
(* Strings that the code inspects character by character (table and        *)
(* column names) are sequences of one-character strings.  An optional      *)
(* boolean property of a column is "undefined", "true" or "false"; an      *)
(* optional object (references, activeLink, selectedRelationId) is the     *)
(* empty sequence when absent/null and a one-element sequence otherwise.   *)
(* uuid() is a counter: every call returns an id never returned before.    *)
(***************************************************************************)
EXTENDS Integers, Sequences, FiniteSets, TLC

VARIABLES tables, relations, activeLink, selected, selectedRelationId,
          history, uuid, viewport, pending, lastOp, pre, steps, clock, calls

vars == <<tables, relations, activeLink, selected, selectedRelationId,
          history, uuid, viewport, pending, lastOp, pre, steps, clock, calls>>

(***************************************************************************)
(* Bounds of the exploration.                                              *)
(***************************************************************************)
MaxSteps == 1
MaxTables == 3
MaxColumns == 3
MaxClock == 1
MaxCalls == 2

(***************************************************************************)
(* Program constants.                                                      *)
(***************************************************************************)
MAX_HISTORY == 60

Undefined == "undefined"
JsTrue == "true"
JsFalse == "false"
Null == <<>>
NoId == 0

Truthy(v) == v = JsTrue
Negate(v) == IF Truthy(v) THEN JsFalse ELSE JsTrue

(***************************************************************************)
(* Array helpers (Array.prototype.map / filter / find / some).             *)
(***************************************************************************)
SeqMap(seq, F(_)) == [i \in 1..Len(seq) |-> F(seq[i])]
SeqFind(seq, Test(_)) ==
  LET m == SelectSeq(seq, Test) IN IF m = <<>> THEN Null ELSE <<Head(m)>>
SeqSome(seq, Test(_)) == \E i \in 1..Len(seq) : Test(seq[i])
Range(seq) == {seq[i] : i \in 1..Len(seq)}

(***************************************************************************)
(* toSnake, fkNameFor, makeFKName.                                         *)
(***************************************************************************)
UpperCase == <<"A","B","C","D","E","F","G","H","I","J","K","L","M",
               "N","O","P","Q","R","S","T","U","V","W","X","Y","Z">>
LowerCase == <<"a","b","c","d","e","f","g","h","i","j","k","l","m",
               "n","o","p","q","r","s","t","u","v","w","x","y","z">>
WhiteSpace == {" "}
IsUpper(ch) == \E i \in 1..Len(UpperCase) : UpperCase[i] = ch
toLowerCase(ch) ==
  IF IsUpper(ch)
  THEN LowerCase[CHOOSE i \in 1..Len(UpperCase) : UpperCase[i] = ch]
  ELSE ch

RECURSIVE DropWhileIn(_, _)
DropWhileIn(str, set) ==
  IF str = <<>> \/ Head(str) \notin set THEN str
  ELSE DropWhileIn(Tail(str), set)

RECURSIVE Reverse(_)
Reverse(str) ==
  IF str = <<>> THEN <<>> ELSE Append(Reverse(Tail(str)), Head(str))

\* removes the characters of `set` from both ends (trim, /^_+|_+$/g)
StripBoth(str, set) == Reverse(DropWhileIn(Reverse(DropWhileIn(str, set)), set))

\* .replace(/([A-Z])/g, "_$1")
RECURSIVE PrefixUpper(_)
PrefixUpper(str) ==
  IF str = <<>> THEN <<>>
  ELSE (IF IsUpper(Head(str)) THEN <<"_", Head(str)>> ELSE <<Head(str)>>)
       \o PrefixUpper(Tail(str))

\* .replace(/[set]+/g, "_")
RECURSIVE CollapseRuns(_, _)
CollapseRuns(str, set) ==
  IF str = <<>> THEN <<>>
  ELSE IF Head(str) \in set
       THEN <<"_">> \o CollapseRuns(DropWhileIn(str, set), set)
       ELSE <<Head(str)>> \o CollapseRuns(Tail(str), set)

toSnake(str) ==
  LET trimmed == StripBoth(str, WhiteSpace)
      upper == PrefixUpper(trimmed)
      spaced == CollapseRuns(upper, WhiteSpace \cup {"-"})
      single == CollapseRuns(spaced, {"_"})
      stripped == StripBoth(single, {"_"})
  IN SeqMap(stripped, toLowerCase)

fkNameFor(refTableName, refColumnName) ==
  toSnake(refTableName) \o <<"_">> \o toSnake(refColumnName)

makeFKName(parentTableName) == parentTableName \o <<"_", "i", "d">>

(***************************************************************************)
(* Data constructors.                                                      *)
(***************************************************************************)
Endpoint(tableId, columnId) == [tableId |-> tableId, columnId |-> columnId]

NewTableName == <<"n","e","w","_","t","a","b","l","e">>
ColumnPrefix == <<"c","o","l","u","m","n","_">>

\* every column carries all properties; a property the code leaves out of
\* the object literal is Undefined / Null
Column(id, name, type, isPrimary, isForeign, isUnique, isNullable, references) ==
  [id |-> id, name |-> name, type |-> type, isPrimary |-> isPrimary,
   isForeign |-> isForeign, isUnique |-> isUnique, isNullable |-> isNullable,
   references |-> references]

\* c.references && c.references.tableId === t && c.references.columnId === c
ReferencesTarget(col, targetTableId, targetColumnId) ==
  /\ col.references # Null
  /\ col.references[1].tableId = targetTableId
  /\ col.references[1].columnId = targetColumnId

findTable(tbls, id) == SeqFind(tbls, LAMBDA t : t.id = id)
findColumn(tbl, id) == SeqFind(tbl.columns, LAMBDA c : c.id = id)

(***************************************************************************)
(* History.                                                                *)
(***************************************************************************)
\* structuredClone / JSON round trip of plain data: an equal value that
\* shares nothing with its argument (values here have no identity)
deepClone(v) == v

Snapshot(s) == [tables |-> deepClone(s.tables), relations |-> deepClone(s.relations)]

\* a plausible slip: past.pop() for past.shift(), dropping the snapshot just
\* pushed and keeping the oldest
recordHistoryPop(s) ==
  LET pushed == Append(s.history.past, Snapshot(s))
      past == IF Len(pushed) > MAX_HISTORY
              THEN SubSeq(pushed, 1, Len(pushed) - 1) ELSE pushed
  IN [s EXCEPT !.history = [past |-> past, future |-> <<>>]]

\* a plausible slip: `future: state.history.future`, the redo branch kept
recordHistoryKeepsFuture(s) ==
  LET pushed == Append(s.history.past, Snapshot(s))
      past == IF Len(pushed) > MAX_HISTORY THEN Tail(pushed) ELSE pushed
  IN [s EXCEPT !.history = [past |-> past, future |-> s.history.future]]

recordHistory(s) ==
  LET pushed == Append(s.history.past, Snapshot(s))
      past == IF Len(pushed) > MAX_HISTORY THEN Tail(pushed) ELSE pushed
  IN [s EXCEPT !.history = [past |-> past, future |-> <<>>]]

\* a plausible slip: the selection left as it was
undoKeepsSelection(s) ==
  IF Len(s.history.past) = 0 THEN s
  ELSE LET n == Len(s.history.past)
           previous == s.history.past[n]
           newPast == SubSeq(s.history.past, 1, n - 1)
           all == <<Snapshot(s)>> \o s.history.future
           future == SubSeq(all, 1, IF Len(all) < MAX_HISTORY THEN Len(all) ELSE MAX_HISTORY)
       IN [s EXCEPT !.tables = previous.tables,
                    !.relations = previous.relations,
                    !.history = [past |-> newPast, future |-> future]]

undo(s) ==
  IF Len(s.history.past) = 0 THEN s
  ELSE LET n == Len(s.history.past)
           previous == s.history.past[n]
           newPast == SubSeq(s.history.past, 1, n - 1)
           all == <<Snapshot(s)>> \o s.history.future
           future == SubSeq(all, 1, IF Len(all) < MAX_HISTORY THEN Len(all) ELSE MAX_HISTORY)
       IN [s EXCEPT !.tables = previous.tables,
                    !.relations = previous.relations,
                    !.history = [past |-> newPast, future |-> future],
                    !.selected = <<>>,
                    !.selectedRelationId = Null]

\* a plausible slip: the graph that redo leaves is not pushed onto `past`
redoForgets(s) ==
  IF Len(s.history.future) = 0 THEN s
  ELSE LET next == s.history.future[1]
           newFuture == Tail(s.history.future)
       IN [s EXCEPT !.tables = next.tables,
                    !.relations = next.relations,
                    !.history = [past |-> s.history.past, future |-> newFuture],
                    !.selected = <<>>,
                    !.selectedRelationId = Null]

redo(s) ==
  IF Len(s.history.future) = 0 THEN s
  ELSE LET next == s.history.future[1]
           newFuture == Tail(s.history.future)
           all == Append(s.history.past, Snapshot(s))
           past == SubSeq(all, IF Len(all) > MAX_HISTORY THEN Len(all) - MAX_HISTORY + 1 ELSE 1, Len(all))
       IN [s EXCEPT !.tables = next.tables,
                    !.relations = next.relations,
                    !.history = [past |-> past, future |-> newFuture],
                    !.selected = <<>>,
                    !.selectedRelationId = Null]

(***************************************************************************)
(* Selection and link authoring.                                           *)
(***************************************************************************)
selectTable(s, id, additive) ==
  LET exists == id \in Range(s.selected)
  IN IF ~additive THEN [s EXCEPT !.selected = <<id>>]
     ELSE IF exists
          THEN [s EXCEPT !.selected = SelectSeq(s.selected, LAMBDA x : x # id)]
          ELSE [s EXCEPT !.selected = Append(s.selected, id)]

clearSelection(s) == [s EXCEPT !.selected = <<>>]

setViewport(s, x, y) == [s EXCEPT !.viewport = [s.viewport EXCEPT !.x = x, !.y = y]]

selectRelation(s, id) == [s EXCEPT !.selectedRelationId = id]

\* a plausible slip: a pending endpoint is kept when a new link is started
startRelationIfIdle(s, tableId, columnId) ==
  IF s.activeLink # Null THEN s
  ELSE [s EXCEPT !.activeLink = <<Endpoint(tableId, columnId)>>]

startRelation(s, tableId, columnId) ==
  [s EXCEPT !.activeLink = <<Endpoint(tableId, columnId)>>]

cancelRelation(s) == [s EXCEPT !.activeLink = Null]

(***************************************************************************)
(* SchemaGraph mutators.                                                   *)
(***************************************************************************)
deleteSelected(s0) ==
  LET s == recordHistory(s0)
      toDelete == Range(s.selected)
  IN [s EXCEPT
        !.tables = SelectSeq(s.tables, LAMBDA t : t.id \notin toDelete),
        !.relations = SelectSeq(s.relations,
            LAMBDA r : r.from.tableId \notin toDelete /\ r.to.tableId \notin toDelete),
        !.activeLink = IF s.activeLink # Null /\ s.activeLink[1].tableId \in toDelete
                       THEN Null ELSE s.activeLink,
        !.selected = <<>>]

addTable(s0, x, y) ==
  LET s == recordHistory(s0)
  IN [s EXCEPT
        !.tables = Append(s.tables,
            [id |-> s.uuid, name |-> NewTableName, x |-> x, y |-> y, columns |-> <<>>]),
        !.uuid = s.uuid + 1]

\* a plausible slip: the comparison inverted, renaming every other table
renameTableOthers(s0, id, name) ==
  LET s == recordHistory(s0)
  IN [s EXCEPT !.tables =
        SeqMap(s.tables, LAMBDA t : IF t.id # id THEN [t EXCEPT !.name = name] ELSE t)]

renameTable(s0, id, name) ==
  LET s == recordHistory(s0)
  IN [s EXCEPT !.tables =
        SeqMap(s.tables, LAMBDA t : IF t.id = id THEN [t EXCEPT !.name = name] ELSE t)]

addColumn(s0, tableId) ==
  LET s == recordHistory(s0)
      hit == findTable(s.tables, tableId) # Null
  IN [s EXCEPT
        !.tables = SeqMap(s.tables, LAMBDA t :
            IF t.id = tableId
            THEN [t EXCEPT !.columns = Append(t.columns,
                    Column(s.uuid, ColumnPrefix \o <<ToString(Len(t.columns) + 1)>>,
                           "text", Undefined, Undefined, Undefined, JsTrue, Null))]
            ELSE t),
        !.uuid = IF hit THEN s.uuid + 1 ELSE s.uuid]

\* { ...c, [key]: value } for the two keys the column editor passes
SetColumnKey(col, key, value) ==
  IF key = "name" THEN [col EXCEPT !.name = value]
  ELSE IF key = "type" THEN [col EXCEPT !.type = value]
  ELSE col

\* a plausible slip: the referenced table is looked up in state.tables, the
\* tables before the rename, so the FK columns get the column's old name
updateColumnStaleName(s0, tableId, columnId, key, value) ==
  LET s == recordHistory(s0)
      tbls == SeqMap(s.tables, LAMBDA t :
                IF t.id # tableId THEN t
                ELSE [t EXCEPT !.columns = SeqMap(t.columns, LAMBDA c :
                        IF c.id = columnId THEN SetColumnKey(c, key, value) ELSE c)])
      refTable == findTable(s.tables, tableId)
      refColumn == IF refTable = Null THEN Null ELSE findColumn(refTable[1], columnId)
      newFkName == IF refTable # Null
                   THEN fkNameFor(refTable[1].name,
                                  IF refColumn # Null THEN refColumn[1].name ELSE value)
                   ELSE fkNameFor(<<>>, value)
      updatedTables == SeqMap(tbls, LAMBDA t :
                [t EXCEPT !.columns = SeqMap(t.columns, LAMBDA col :
                    IF ReferencesTarget(col, tableId, columnId)
                    THEN [col EXCEPT !.name = newFkName] ELSE col)])
  IN IF key = "name" THEN [s EXCEPT !.tables = updatedTables]
     ELSE [s EXCEPT !.tables = tbls]

updateColumn(s0, tableId, columnId, key, value) ==
  LET s == recordHistory(s0)
      tbls == SeqMap(s.tables, LAMBDA t :
                IF t.id # tableId THEN t
                ELSE [t EXCEPT !.columns = SeqMap(t.columns, LAMBDA c :
                        IF c.id = columnId THEN SetColumnKey(c, key, value) ELSE c)])
      refTable == findTable(tbls, tableId)
      refColumn == IF refTable = Null THEN Null ELSE findColumn(refTable[1], columnId)
      newFkName == IF refTable # Null
                   THEN fkNameFor(refTable[1].name,
                                  IF refColumn # Null THEN refColumn[1].name ELSE value)
                   ELSE fkNameFor(<<>>, value)
      updatedTables == SeqMap(tbls, LAMBDA t :
                [t EXCEPT !.columns = SeqMap(t.columns, LAMBDA col :
                    IF ReferencesTarget(col, tableId, columnId)
                    THEN [col EXCEPT !.name = newFkName] ELSE col)])
  IN IF key = "name" THEN [s EXCEPT !.tables = updatedTables]
     ELSE [s EXCEPT !.tables = tbls]

removeColumn(s0, tableId, columnId) ==
  LET s == recordHistory(s0)
  IN [s EXCEPT !.tables = SeqMap(s.tables, LAMBDA t :
        IF t.id = tableId
        THEN [t EXCEPT !.columns = SelectSeq(t.columns, LAMBDA c : c.id # columnId)]
        ELSE t)]

updateTablePosition(s, id, x, y) ==
  [s EXCEPT !.tables = SeqMap(s.tables, LAMBDA t :
        IF t.id = id THEN [t EXCEPT !.x = x, !.y = y] ELSE t)]

removeTable(s0, tableId) ==
  LET s == recordHistory(s0)
  IN [s EXCEPT
        !.tables = SelectSeq(s.tables, LAMBDA t : t.id # tableId),
        !.relations = SelectSeq(s.relations,
            LAMBDA r : r.from.tableId # tableId /\ r.to.tableId # tableId),
        !.activeLink = IF s.activeLink # Null /\ s.activeLink[1].tableId = tableId
                       THEN Null ELSE s.activeLink,
        !.selected = SelectSeq(s.selected, LAMBDA x : x # tableId)]

ToggleFlag(col, flag) ==
  IF flag = "isPrimary" THEN [col EXCEPT !.isPrimary = Negate(col.isPrimary)]
  ELSE IF flag = "isForeign" THEN [col EXCEPT !.isForeign = Negate(col.isForeign)]
  ELSE IF flag = "isUnique" THEN [col EXCEPT !.isUnique = Negate(col.isUnique)]
  ELSE [col EXCEPT !.isNullable = Negate(col.isNullable)]

toggleColumnFlag(s0, tableId, columnId, flag) ==
  LET s == recordHistory(s0)
  IN [s EXCEPT !.tables = SeqMap(s.tables, LAMBDA t :
        IF t.id = tableId
        THEN [t EXCEPT !.columns = SeqMap(t.columns, LAMBDA c :
                IF c.id = columnId THEN ToggleFlag(c, flag) ELSE c)]
        ELSE t)]

(***************************************************************************)
(* RelationEngine.                                                         *)
(***************************************************************************)
\* a plausible slip: `c.isPrimary !== false`, which takes a column that was
\* never toggled for a primary key
primaryKeyOfNotFalse(tbl) == SeqFind(tbl.columns, LAMBDA c : c.isPrimary # JsFalse)

\* table.columns.find((c) => c.isPrimary)
primaryKeyOf(tbl) == SeqFind(tbl.columns, LAMBDA c : Truthy(c.isPrimary))

\* a plausible slip: `A === B`, the identity of two objects, of which B was
\* created by this call
sameEndpointByIdentity(A, B) == FALSE

\* A.tableId === B.tableId && A.columnId === B.columnId
sameEndpoint(A, B) == A.tableId = B.tableId /\ A.columnId = B.columnId

commitRelation(s0, tableId, columnId) ==
  LET s == recordHistory(s0)
  IN IF s.activeLink = Null THEN s
     ELSE
     LET A == s.activeLink[1]
         B == Endpoint(tableId, columnId)
         tableA == findTable(s.tables, A.tableId)
         tableB == findTable(s.tables, B.tableId)
     IN IF sameEndpoint(A, B)
        THEN [s EXCEPT !.activeLink = Null]
        ELSE IF tableA = Null \/ tableB = Null
        THEN [s EXCEPT !.activeLink = Null]
        ELSE
        LET pkA == primaryKeyOf(tableA[1])
            pkB == primaryKeyOf(tableB[1])
        IN IF pkA = Null /\ pkB = Null
           THEN [s EXCEPT !.activeLink = Null]
           ELSE
           LET aIsParent == pkA # Null
               parentTable == IF aIsParent THEN tableA[1] ELSE tableB[1]
               childTable == IF aIsParent THEN tableB[1] ELSE tableA[1]
               parentEndpoint == IF aIsParent THEN A ELSE B
               childEndpoint == IF aIsParent THEN B ELSE A
               parentPK == IF aIsParent THEN pkA[1] ELSE pkB[1]
               fkName == makeFKName(parentTable.name)
               childHasFK == SeqSome(childTable.columns, LAMBDA c : c.name = fkName)
               relationId == IF childHasFK THEN s.uuid ELSE s.uuid + 1
               updatedTables == SeqMap(s.tables, LAMBDA t :
                   IF t.id # childTable.id THEN t
                   ELSE IF childHasFK THEN t
                   ELSE [t EXCEPT !.columns = Append(t.columns,
                           Column(s.uuid, fkName, parentPK.type,
                                  Undefined, JsTrue, Undefined, JsTrue, Null))])
               newRelation == [id |-> relationId,
                               from |-> parentEndpoint,
                               to |-> childEndpoint,
                               cardinality |-> "one-to-many",
                               deleteRule |-> "restrict",
                               updateRule |-> "cascade"]
           IN [s EXCEPT !.tables = updatedTables,
                        !.relations = Append(s.relations, newRelation),
                        !.activeLink = Null,
                        !.uuid = relationId + 1]

removeFKReferencing(tbls, targetTableId, targetColumnId) ==
  SeqMap(tbls, LAMBDA t :
    [t EXCEPT !.columns = SelectSeq(t.columns,
        LAMBDA c : ~ReferencesTarget(c, targetTableId, targetColumnId))])

\* TRUE when ensureFKOn reaches the point where it builds the FK column
ensureFKOnBuilds(tbls, sourceTableId, sourceColumnId, targetTableId) ==
  LET sourceTable == findTable(tbls, sourceTableId)
      targetTable == findTable(tbls, targetTableId)
  IN /\ sourceTable # Null
     /\ targetTable # Null
     /\ findColumn(sourceTable[1], sourceColumnId) # Null
     /\ ~SeqSome(targetTable[1].columns,
                 LAMBDA c : ReferencesTarget(c, sourceTableId, sourceColumnId))

ensureFKOn(tbls, newId, sourceTableId, sourceColumnId, targetTableId) ==
  IF ~ensureFKOnBuilds(tbls, sourceTableId, sourceColumnId, targetTableId)
  THEN tbls
  ELSE LET sourceTable == findTable(tbls, sourceTableId)[1]
           sourceCol == findColumn(sourceTable, sourceColumnId)[1]
           candidateFkName == fkNameFor(sourceTable.name, sourceCol.name)
           fkCol == Column(newId, candidateFkName,
                           IF sourceCol.type = "" THEN "text" ELSE sourceCol.type,
                           JsFalse, JsTrue, JsFalse, JsTrue,
                           <<Endpoint(sourceTableId, sourceColumnId)>>)
       IN SeqMap(tbls, LAMBDA t :
            IF t.id = targetTableId
            THEN [t EXCEPT !.columns = Append(t.columns, fkCol)]
            ELSE t)

updateRelationCardinality(s0, relationId, cardinality, reverse) ==
  LET s == recordHistory(s0)
      found == SeqFind(s.relations, LAMBDA r : r.id = relationId)
  IN IF found = Null THEN s
     ELSE
     LET old == found[1]
         relation == [old EXCEPT !.from = IF reverse THEN old.to ELSE old.from,
                                 !.to = IF reverse THEN old.from ELSE old.to,
                                 !.cardinality = cardinality]
         rels == SeqMap(s.relations, LAMBDA r : IF r.id = relationId THEN relation ELSE r)
         from == relation.from
         to == relation.to
         cleanFrom == removeFKReferencing(s.tables, from.tableId, from.columnId)
         cleaned == removeFKReferencing(cleanFrom, to.tableId, to.columnId)
         rebuild == cardinality \in {"one-to-many", "one-to-one"}
         builds == rebuild /\ ensureFKOnBuilds(cleaned, from.tableId, from.columnId, to.tableId)
         tbls == IF rebuild
                 THEN ensureFKOn(cleaned, s.uuid, from.tableId, from.columnId, to.tableId)
                 ELSE cleaned
     IN [s EXCEPT !.relations = rels,
                  !.tables = tbls,
                  !.uuid = IF builds THEN s.uuid + 1 ELSE s.uuid]

deleteRelation(s0, relationId) ==
  LET s == recordHistory(s0)
      rel == SeqFind(s.relations, LAMBDA r : r.id = relationId)
      remaining == SelectSeq(s.relations, LAMBDA r : r.id # relationId)
  IN IF rel = Null THEN s
     ELSE
     LET parentTable == findTable(s.tables, rel[1].from.tableId)
         childTable == findTable(s.tables, rel[1].to.tableId)
     IN IF parentTable = Null \/ childTable = Null
        THEN [s EXCEPT !.relations = remaining]
        ELSE
        LET fkName == makeFKName(parentTable[1].name)
            otherRelations == SelectSeq(s.relations, LAMBDA r :
                /\ r.id # relationId
                /\ r.to.tableId = childTable[1].id
                /\ makeFKName(parentTable[1].name) = fkName)
            shouldRemoveFK == Len(otherRelations) = 0
            updatedTables == SeqMap(s.tables, LAMBDA t :
                IF t.id # childTable[1].id THEN t
                ELSE IF ~shouldRemoveFK THEN t
                ELSE [t EXCEPT !.columns =
                        SelectSeq(t.columns, LAMBDA c : c.name # fkName)])
        IN [s EXCEPT !.tables = updatedTables,
                     !.relations = remaining,
                     !.selectedRelationId = Null]

deleteTable(s0, tableId) ==
  LET s == recordHistory(s0)
      table == findTable(s.tables, tableId)
  IN IF table = Null THEN s
     ELSE
     LET remainingRelations == SelectSeq(s.relations,
             LAMBDA r : r.from.tableId # tableId /\ r.to.tableId # tableId)
         fkName == makeFKName(table[1].name)
         cleanedTables ==
           SeqMap(SelectSeq(s.tables, LAMBDA t : t.id # tableId), LAMBDA t :
             IF SeqSome(s.relations,
                        LAMBDA rel : rel.to.tableId = t.id /\ rel.from.tableId = tableId)
             THEN [t EXCEPT !.columns = SelectSeq(t.columns, LAMBDA c : c.name # fkName)]
             ELSE t)
     IN [s EXCEPT !.tables = cleanedTables,
                  !.relations = remainingRelations,
                  !.selectedRelationId = Null,
                  !.selected = SelectSeq(s.selected, LAMBDA id : id # tableId)]

(***************************************************************************)
(* SQL text.  A text is a sequence of pieces: a character of a name, or a   *)
(* fixed fragment the generator writes ("CREATE TABLE ", " NOT NULL").  A   *)
(* line break is the piece "\n".  Concatenation of texts is \o.             *)
(***************************************************************************)
RECURSIVE Flatten(_)
Flatten(texts) ==
  IF texts = <<>> THEN <<>> ELSE Head(texts) \o Flatten(Tail(texts))

\* Array.prototype.join
JoinWith(texts, sep) ==
  IF texts = <<>> THEN <<>>
  ELSE Head(texts) \o Flatten(SeqMap(Tail(texts), LAMBDA t : sep \o t))

\* String.prototype.replace(/ch/g, by)
ReplaceAll(text, ch, by) ==
  Flatten(SeqMap(text, LAMBDA c : IF c = ch THEN by ELSE <<c>>))

\* String.prototype.startsWith / includes
StartsWith(text, prefix) ==
  Len(prefix) <= Len(text) /\ SubSeq(text, 1, Len(prefix)) = prefix
Includes(text, part) ==
  \E k \in 1..(Len(text) - Len(part) + 1) : SubSeq(text, k, k + Len(part) - 1) = part

\* the characters of names in UTF-16 code unit order
CodeUnits ==
  <<" ", "-", "0", "1", "2", "3", "4", "5", "6", "7", "8", "9">>
    \o UpperCase \o <<"_">> \o LowerCase
CodeUnit(ch) == CHOOSE i \in 1..Len(CodeUnits) : CodeUnits[i] = ch

\* a < b for sequences of numbers, lexicographically
RECURSIVE SeqLess(_, _)
SeqLess(a, b) ==
  IF b = <<>> THEN FALSE
  ELSE IF a = <<>> THEN TRUE
  ELSE IF Head(a) = Head(b) THEN SeqLess(Tail(a), Tail(b))
  ELSE Head(a) < Head(b)

\* a < b for strings compared by code units (the default of Array.sort)
CodeUnitLess(a, b) == SeqLess(SeqMap(a, CodeUnit), SeqMap(b, CodeUnit))

\* a.localeCompare(b) < 0 in the root collation: punctuation, digits, then
\* letters; case decides only between strings equal up to case, lower first
Collation ==
  <<" ", "_", "-", "0", "1", "2", "3", "4", "5", "6", "7", "8", "9">> \o LowerCase
Primary(ch) == CHOOSE i \in 1..Len(Collation) : Collation[i] = toLowerCase(ch)
CaseRank(ch) == IF IsUpper(ch) THEN 1 ELSE 0
LocaleLess(a, b) ==
  IF SeqMap(a, Primary) # SeqMap(b, Primary)
  THEN SeqLess(SeqMap(a, Primary), SeqMap(b, Primary))
  ELSE SeqLess(SeqMap(a, CaseRank), SeqMap(b, CaseRank))

Rule == "-- ------------------------------------------------"

(***************************************************************************)
(* lib/sqlgenerator: the column-driven generator.                          *)
(***************************************************************************)
enumName(table, colName) ==
  table.name \o <<"_">> \o colName \o <<"_","e","n","u","m">>

fkConstraintName(childTable, fkColumn) ==
  <<"f","k","_">> \o childTable \o <<"_">> \o fkColumn

ident(name) == name

\* a plausible slip: the reversed match left out
findRelationForward(rels, fromTableId, fromColId, toTableId, toColId) ==
  SeqFind(rels, LAMBDA r :
    /\ r.from.tableId = fromTableId /\ r.from.columnId = fromColId
    /\ r.to.tableId = toTableId /\ r.to.columnId = toColId)

findRelationForEndpoints(rels, fromTableId, fromColId, toTableId, toColId) ==
  LET forward == SeqFind(rels, LAMBDA r :
                   /\ r.from.tableId = fromTableId /\ r.from.columnId = fromColId
                   /\ r.to.tableId = toTableId /\ r.to.columnId = toColId)
      reversed == SeqFind(rels, LAMBDA r :
                   /\ r.from.tableId = toTableId /\ r.from.columnId = toColId
                   /\ r.to.tableId = fromTableId /\ r.to.columnId = fromColId)
  IN IF forward # Null THEN forward ELSE reversed

\* Array.isArray((col as any).enumValues), (col as any).default !== undefined
hasEnumValues(col) == "enumValues" \in DOMAIN col
hasDefault(col) == "default" \in DOMAIN col

\* 'v' with every ' doubled
quoteValue(v) == <<"'">> \o ReplaceAll(v, "'", <<"'", "'">>) \o <<"'">>

\* phase 1: CREATE TYPE for the enum columns
enumLines(tbls) ==
  Flatten(SeqMap(tbls, LAMBDA table :
    Flatten(SeqMap(table.columns, LAMBDA col :
      IF col.type = "enum" /\ hasEnumValues(col) /\ Len(col.enumValues) > 0
      THEN << <<"-- ENUM for ">> \o table.name \o <<".">> \o col.name,
              <<"CREATE TYPE ">> \o ident(enumName(table, col.name))
                \o <<" AS ENUM (">>
                \o JoinWith(SeqMap(col.enumValues, quoteValue), <<", ">>)
                \o <<");">>,
              <<>> >>
      ELSE <<>>))))

columnType(table, col) ==
  LET aliased == IF col.type = "int" THEN "integer" ELSE col.type
      serial == IF ~Truthy(col.isPrimary) THEN aliased
                ELSE IF col.type \in {"int", "integer"} THEN "serial"
                ELSE IF col.type = "bigint" THEN "bigserial"
                ELSE aliased
  IN IF col.type = "enum" /\ hasEnumValues(col)
     THEN enumName(table, col.name) ELSE <<serial>>

columnDef(table, col) ==
  <<"  ">> \o ident(col.name) \o <<" ">> \o columnType(table, col)
    \o (IF Truthy(col.isPrimary) THEN <<" NOT NULL">>
        ELSE IF col.isNullable = JsFalse THEN <<" NOT NULL">> ELSE <<>>)
    \o (IF Truthy(col.isUnique) THEN <<" UNIQUE">> ELSE <<>>)
    \o (IF hasDefault(col) THEN <<" DEFAULT ">> \o col.default ELSE <<>>)

\* the single key is marked on the first definition that starts with its
\* name; several keys give a table-level PRIMARY KEY
withPrimaryKey(colDefs, pkCols) ==
  IF Len(pkCols) = 1
  THEN LET prefix == <<"  ">> \o ident(pkCols[1]) \o <<" ">>
           hits == {i \in 1..Len(colDefs) :
                      /\ StartsWith(colDefs[i], prefix)
                      /\ ~Includes(colDefs[i], <<" PRIMARY KEY">>)}
       IN IF hits = {} THEN colDefs
          ELSE LET first == CHOOSE i \in hits : \A j \in hits : i <= j
               IN [colDefs EXCEPT ![first] = @ \o <<" PRIMARY KEY">>]
  ELSE IF Len(pkCols) > 1
  THEN Append(colDefs, <<"  PRIMARY KEY (">>
                         \o JoinWith(SeqMap(pkCols, ident), <<", ">>) \o <<")">>)
  ELSE colDefs

\* phase 2: CREATE TABLE with columns, keys and UNIQUE
tableLines(tbls) ==
  Flatten(SeqMap(tbls, LAMBDA table :
    LET pkCols == SeqMap(SelectSeq(table.columns, LAMBDA c : Truthy(c.isPrimary)),
                         LAMBDA c : c.name)
        colDefs == SeqMap(table.columns, LAMBDA col : columnDef(table, col))
    IN << <<Rule>>,
          <<"-- TABLE: ">> \o table.name,
          <<Rule>>,
          <<"CREATE TABLE ">> \o ident(table.name) \o <<" (">>,
          JoinWith(withPrimaryKey(colDefs, pkCols), <<",", "\n">>),
          <<");">>,
          <<>> >>))

\* [a, b].sort()
sortNames(a, b) == IF CodeUnitLess(b, a) THEN <<b, a>> ELSE <<a, b>>
joinNameOf(tableA, tableB) ==
  LET names == sortNames(tableA.name, tableB.name)
  IN names[1] \o <<"_">> \o names[2]

\* phase 3 over relations 1..n: the join tables produced, in order, and
\* their CREATE TABLE lines
RECURSIVE joinTables(_, _, _)
joinTables(tbls, rels, n) ==
  IF n = 0 THEN [produced |-> <<>>, lines |-> <<>>]
  ELSE
  LET acc == joinTables(tbls, rels, n - 1)
      rel == rels[n]
      tableA == findTable(tbls, rel.from.tableId)
      tableB == findTable(tbls, rel.to.tableId)
  IN IF rel.cardinality # "many-to-many" THEN acc
     ELSE IF tableA = Null \/ tableB = Null THEN acc
     ELSE
     LET joinName == joinNameOf(tableA[1], tableB[1])
         pkA == primaryKeyOf(tableA[1])
         pkB == primaryKeyOf(tableB[1])
         colA == ident(tableA[1].name \o <<"_","i","d">>)
         colB == ident(tableB[1].name \o <<"_","i","d">>)
     IN IF SeqSome(acc.produced, LAMBDA name : name = joinName) THEN acc
        ELSE IF pkA = Null \/ pkB = Null THEN acc
        ELSE [produced |-> Append(acc.produced, joinName),
              lines |-> acc.lines \o
                << <<Rule>>,
                   <<"-- MANY-TO-MANY JOIN TABLE: ">> \o joinName,
                   <<Rule>>,
                   <<"CREATE TABLE ">> \o ident(joinName) \o <<" (">>,
                   <<"  ">> \o colA \o <<" ", pkA[1].type, " NOT NULL,">>,
                   <<"  ">> \o colB \o <<" ", pkB[1].type, " NOT NULL,">>,
                   <<"  PRIMARY KEY (">> \o colA \o <<", ">> \o colB \o <<")">>,
                   <<");">>,
                   <<>> >>]

onDelete(rel) ==
  IF rel = Null THEN <<>>
  ELSE IF rel[1].deleteRule = "cascade" THEN <<" ON DELETE CASCADE">>
  ELSE IF rel[1].deleteRule = "set-null" THEN <<" ON DELETE SET NULL">>
  ELSE <<>>
onUpdate(rel) ==
  IF rel # Null /\ rel[1].updateRule = "cascade" THEN <<" ON UPDATE CASCADE">> ELSE <<>>

\* phase 4 for one column: the warning it pushes to the output, or the
\* statement lines it pushes to fkStatements
foreignKeyOf(tbls, rels, table, col) ==
  IF ~Truthy(col.isForeign) \/ col.references = Null
  THEN [warnings |-> <<>>, statements |-> <<>>]
  ELSE
  LET parent == findTable(tbls, col.references[1].tableId)
      parentCol == IF parent = Null THEN Null
                   ELSE findColumn(parent[1], col.references[1].columnId)
  IN IF parent = Null
     THEN [warnings |-> << <<"-- WARNING: FK ">> \o table.name \o <<".">> \o col.name
                              \o <<" references unknown table id=",
                                   ToString(col.references[1].tableId)>> >>,
           statements |-> <<>>]
     ELSE IF parentCol = Null
     THEN [warnings |-> << <<"-- WARNING: FK ">> \o table.name \o <<".">> \o col.name
                              \o <<" references unknown column id=",
                                   ToString(col.references[1].columnId), " on table ">>
                              \o parent[1].name >>,
           statements |-> <<>>]
     ELSE
     LET rel == findRelationForEndpoints(rels, parent[1].id, parentCol[1].id,
                                         table.id, col.id)
         fkName == fkConstraintName(table.name, col.name)
     IN [warnings |-> <<>>,
         statements |->
           << <<"-- FK: ">> \o table.name \o <<".">> \o col.name \o <<" -> ">>
                \o parent[1].name \o <<".">> \o parentCol[1].name,
              <<"ALTER TABLE ">> \o ident(table.name) \o <<" ADD CONSTRAINT ">>
                \o ident(fkName) \o <<" FOREIGN KEY (">> \o ident(col.name)
                \o <<") REFERENCES ">> \o ident(parent[1].name) \o <<"(">>
                \o ident(parentCol[1].name) \o <<")">>
                \o onDelete(rel) \o onUpdate(rel) \o <<";">>,
              <<>> >>]

foreignKeys(tbls, rels) ==
  Flatten(SeqMap(tbls, LAMBDA table :
    SeqMap(table.columns, LAMBDA col : foreignKeyOf(tbls, rels, table, col))))

\* phase 4, second loop: the two constraints of one join table
joinForeignKeys(tbls, rels, joinName) ==
  LET rel == SeqFind(rels, LAMBDA r :
               /\ r.cardinality = "many-to-many"
               /\ findTable(tbls, r.from.tableId) # Null
               /\ findTable(tbls, r.to.tableId) # Null
               /\ joinNameOf(findTable(tbls, r.from.tableId)[1],
                             findTable(tbls, r.to.tableId)[1]) = joinName)
  IN IF rel = Null THEN <<>>
     ELSE
     LET tableA == findTable(tbls, rel[1].from.tableId)[1]
         tableB == findTable(tbls, rel[1].to.tableId)[1]
         pkA == primaryKeyOf(tableA)
         pkB == primaryKeyOf(tableB)
         Constraint(table, pk) ==
           << <<"-- FK: ">> \o joinName \o <<".">> \o table.name
                \o <<"_","i","d">> \o <<" -> ">>
                \o table.name \o <<".">> \o pk.name,
              <<"ALTER TABLE ">> \o ident(joinName) \o <<" ADD CONSTRAINT ">>
                \o ident(fkConstraintName(joinName, table.name \o <<"_","i","d">>))
                \o <<" FOREIGN KEY (">> \o ident(table.name \o <<"_","i","d">>)
                \o <<") REFERENCES ">> \o ident(table.name) \o <<"(">>
                \o ident(pk.name) \o <<")">> \o <<" ON DELETE CASCADE">> \o <<";">>,
              <<>> >>
     IN IF pkA = Null \/ pkB = Null THEN <<>>
        ELSE Constraint(tableA, pkA[1]) \o Constraint(tableB, pkB[1])

\* a plausible slip: the join tables pushed after the constraints
sqlLinesJoinsLast(tbls, rels) ==
  LET joins == joinTables(tbls, rels, Len(rels))
      fks == foreignKeys(tbls, rels)
      fkStatements ==
        Flatten(SeqMap(fks, LAMBDA fk : fk.statements))
          \o Flatten(SeqMap(joins.produced,
                            LAMBDA name : joinForeignKeys(tbls, rels, name)))
  IN enumLines(tbls) \o tableLines(tbls)
       \o Flatten(SeqMap(fks, LAMBDA fk : fk.warnings))
       \o fkStatements \o joins.lines

\* the `lines` array before the final join
sqlLines(tbls, rels) ==
  LET joins == joinTables(tbls, rels, Len(rels))
      fks == foreignKeys(tbls, rels)
      fkStatements ==
        Flatten(SeqMap(fks, LAMBDA fk : fk.statements))
          \o Flatten(SeqMap(joins.produced,
                            LAMBDA name : joinForeignKeys(tbls, rels, name)))
  IN enumLines(tbls) \o tableLines(tbls) \o joins.lines
       \o Flatten(SeqMap(fks, LAMBDA fk : fk.warnings))
       \o (IF Len(fkStatements) > 0
           THEN << <<Rule>>,
                   <<"-- FOREIGN KEY CONSTRAINTS (added after table creation)">>,
                   <<Rule>>,
                   <<>> >> \o fkStatements
           ELSE <<>>)

generateSQL(tbls, rels) == JoinWith(sqlLines(tbls, rels), <<"\n">>)

(***************************************************************************)
(* lib/sqlGenerator: the relation-driven generator for PostgreSQL.         *)
(***************************************************************************)
quoteId(name) == <<"\"">> \o ReplaceAll(name, "\"", <<"\"", "\"">>) \o <<"\"">>

enumNamePg(table, colName) ==
  SeqMap(<<"e","n","u","m","_">> \o table.name \o <<"_">> \o colName, toLowerCase)

\* raw.length > 60 ? raw.substring(0, 60) : raw, quoted
constraintName(prefix, table, col) ==
  LET raw == prefix \o <<"_">> \o table \o <<"_">> \o col
  IN quoteId(IF Len(raw) > 60 THEN SubSeq(raw, 1, 60) ELSE raw)

\* new Date(now).toISOString(), for a clock that counts the seconds 0..9
\* after the epoch
toISOString(now) == <<"1970-01-01T00:00:0", ToString(now), ".000Z">>

\* col.type.toLowerCase(): the type names with an upper-case spelling
typeToLowerCase(type) ==
  CASE type = "INT" -> "int"
    [] type = "TEXT" -> "text"
    [] type = "UUID" -> "uuid"
    [] type = "DATE" -> "date"
    [] type = "BOOL" -> "bool"
    [] type = "JSON" -> "json"
    [] OTHER -> type

Created == <<"c","r","e","a","t","e","d">>

\* the switch over the lower-cased type: the SQL type and the default
columnTypePg(table, col) ==
  LET sqlType == typeToLowerCase(col.type)
      given == hasDefault(col) /\ col.default # <<>>
      defaultVal == IF hasDefault(col) THEN <<col.default>> ELSE Null
  IN CASE sqlType \in {"int", "integer"} ->
            [type |-> IF Truthy(col.isPrimary) THEN <<"SERIAL">> ELSE <<"INTEGER">>,
             default |-> defaultVal]
       [] sqlType = "uuid" ->
            [type |-> <<"UUID">>,
             default |-> IF Truthy(col.isPrimary) /\ ~given
                         THEN << <<"gen_random_uuid()">> >> ELSE defaultVal]
       [] sqlType \in {"text", "string"} -> [type |-> <<"TEXT">>, default |-> defaultVal]
       [] sqlType \in {"bool", "boolean"} ->
            [type |-> <<"BOOLEAN">>, default |-> defaultVal]
       [] sqlType \in {"date", "datetime"} ->
            [type |-> <<"TIMESTAMPTZ">>,
             default |-> IF ~given /\ Includes(col.name, Created)
                         THEN << <<"CURRENT_TIMESTAMP">> >> ELSE defaultVal]
       [] sqlType \in {"json", "jsonb"} -> [type |-> <<"JSONB">>, default |-> defaultVal]
       [] sqlType = "enum" ->
            [type |-> quoteId(enumNamePg(table, col.name)), default |-> defaultVal]
       [] OTHER -> [type |-> <<"TEXT">>, default |-> defaultVal]

columnDefPg(table, col) ==
  LET mapped == columnTypePg(table, col)
  IN <<"  ">> \o quoteId(col.name) \o <<" ">> \o mapped.type
       \o (IF ~Truthy(col.isNullable) /\ ~Truthy(col.isPrimary)
           THEN <<" NOT NULL">> ELSE <<>>)
       \o (IF Truthy(col.isUnique) THEN <<" UNIQUE">> ELSE <<>>)
       \o (IF mapped.default # Null THEN <<" DEFAULT ">> \o mapped.default[1] ELSE <<>>)

headerLinesPg(now) ==
  << <<"-- =========================================================">>,
     <<"-- Database Schema Export">>,
     <<"-- Generated at ">> \o toISOString(now),
     <<"-- =========================================================">>,
     <<>> >>

\* section 1: one CREATE TYPE per distinct enum name
enumLinesPg(tbls) ==
  LET enums == Flatten(SeqMap(tbls, LAMBDA table :
                 SeqMap(SelectSeq(table.columns,
                                  LAMBDA col : col.type = "enum" /\ hasEnumValues(col)),
                        LAMBDA col : [name |-> enumNamePg(table, col.name),
                                      values |-> col.enumValues])))
      first == SelectSeq([i \in 1..Len(enums) |-> i],
                 LAMBDA i : \A j \in 1..(i - 1) : enums[j].name # enums[i].name)
  IN << <<"-- [1] Enum Types">> >>
       \o SeqMap(first, LAMBDA i :
            <<"CREATE TYPE ">> \o quoteId(enums[i].name) \o <<" AS ENUM (">>
              \o JoinWith(SeqMap(enums[i].values, quoteValue), <<", ">>) \o <<");">>)
       \o << <<>> >>

\* section 2: the tables, structure only
tableLinesPg(tbls) ==
  << <<"-- [2] Tables">> >> \o
  Flatten(SeqMap(tbls, LAMBDA table :
    LET pkCols == SelectSeq(table.columns, LAMBDA c : Truthy(c.isPrimary))
        colDefs == SeqMap(table.columns, LAMBDA col : columnDefPg(table, col))
        keyed == IF Len(pkCols) > 0
                 THEN Append(colDefs, <<"  PRIMARY KEY (">>
                        \o JoinWith(SeqMap(pkCols, LAMBDA c : quoteId(c.name)), <<", ">>)
                        \o <<")">>)
                 ELSE colDefs
    IN << <<"CREATE TABLE ", "IF NOT EXISTS ">> \o quoteId(table.name) \o <<" (">>,
          JoinWith(keyed, <<",", "\n">>),
          <<");">>,
          <<>> >>))

\* section 3: one constraint and one index per relation that is not
\* many-to-many, the constraint on the relation's `from` column
relationKeysPg(tbls, rels) ==
  LET plain == SelectSeq(rels, LAMBDA rel :
                 /\ rel.cardinality # "many-to-many"
                 /\ findTable(tbls, rel.from.tableId) # Null
                 /\ findTable(tbls, rel.to.tableId) # Null
                 /\ findColumn(findTable(tbls, rel.from.tableId)[1], rel.from.columnId) # Null
                 /\ findColumn(findTable(tbls, rel.to.tableId)[1], rel.to.columnId) # Null)
      entries == SeqMap(plain, LAMBDA rel :
        LET fkTable == findTable(tbls, rel.from.tableId)[1]
            fkCol == findColumn(fkTable, rel.from.columnId)[1]
            refTable == findTable(tbls, rel.to.tableId)[1]
            refCol == findColumn(refTable, rel.to.columnId)[1]
        IN [relKey |-> fkTable.name \o <<".">> \o fkCol.name \o <<"-">>
                         \o refTable.name \o <<".">> \o refCol.name,
            fk |-> <<"ALTER TABLE ">> \o quoteId(fkTable.name)
                     \o <<" ADD CONSTRAINT ">>
                     \o constraintName(<<"f","k">>, fkTable.name, fkCol.name)
                     \o <<" FOREIGN KEY (">> \o quoteId(fkCol.name)
                     \o <<") REFERENCES ">> \o quoteId(refTable.name) \o <<"(">>
                     \o quoteId(refCol.name) \o <<")">>
                     \o onDelete(<<rel>>) \o onUpdate(<<rel>>) \o <<";">>,
            index |-> <<"CREATE INDEX ", "IF NOT EXISTS ">>
                        \o constraintName(<<"i","d","x">>, fkTable.name, fkCol.name)
                        \o <<" ON ">> \o quoteId(fkTable.name) \o <<"(">>
                        \o quoteId(fkCol.name) \o <<");">>])
      first == SelectSeq([i \in 1..Len(entries) |-> i],
                 LAMBDA i : \A j \in 1..(i - 1) : entries[j].relKey # entries[i].relKey)
  IN SeqMap(first, LAMBDA i : entries[i])

\* [tA, tB].sort((a, b) => a.name.localeCompare(b.name))
sortTablesPg(tA, tB) == IF LocaleLess(tB.name, tA.name) THEN <<tB, tA>> ELSE <<tA, tB>>
junctionNamePg(tA, tB) ==
  LET sorted == sortTablesPg(tA, tB)
  IN <<"_","j","u","n","c","t","i","o","n","_">>
       \o sorted[1].name \o <<"_">> \o sorted[2].name

\* section 4 over relations 1..n: the junction names processed, and the
\* table, constraint and index lines of the junctions
RECURSIVE junctionsPg(_, _, _)
junctionsPg(tbls, rels, n) ==
  IF n = 0 THEN [processed |-> {}, lines |-> <<>>, fks |-> <<>>, indexes |-> <<>>]
  ELSE
  LET acc == junctionsPg(tbls, rels, n - 1)
      rel == rels[n]
      tA == findTable(tbls, rel.from.tableId)
      tB == findTable(tbls, rel.to.tableId)
  IN IF rel.cardinality # "many-to-many" THEN acc
     ELSE IF tA = Null \/ tB = Null THEN acc
     ELSE
     LET sorted == sortTablesPg(tA[1], tB[1])
         table1 == sorted[1]
         table2 == sorted[2]
         joinTableName == junctionNamePg(tA[1], tB[1])
         seen == [acc EXCEPT !.processed = @ \cup {joinTableName}]
         pk1 == primaryKeyOf(table1)
         pk2 == primaryKeyOf(table2)
         IdType(pk) == IF pk.type \in {"int", "integer"} THEN "INTEGER" ELSE "UUID"
         col1 == quoteId(table1.name \o <<"_","i","d">>)
         col2 == quoteId(table2.name \o <<"_","i","d">>)
         Constraint(table, col, pk) ==
           <<"ALTER TABLE ">> \o quoteId(joinTableName) \o <<" ADD CONSTRAINT ">>
             \o constraintName(<<"f","k","_","j","u","n","c">>, joinTableName, table.name)
             \o <<" FOREIGN KEY (">> \o col \o <<") REFERENCES ">>
             \o quoteId(table.name) \o <<"(">> \o quoteId(pk.name) \o <<")">>
             \o <<" ON DELETE CASCADE">> \o <<";">>
     IN IF joinTableName \in acc.processed THEN acc
        ELSE IF pk1 = Null \/ pk2 = Null THEN seen
        ELSE [seen EXCEPT
                !.lines = @ \o
                  << <<"CREATE TABLE ", "IF NOT EXISTS ">> \o quoteId(joinTableName)
                       \o <<" (">>,
                     <<"  ">> \o col1 \o <<" ", IdType(pk1[1]), " NOT NULL,">>,
                     <<"  ">> \o col2 \o <<" ", IdType(pk2[1]), " NOT NULL,">>,
                     <<"  PRIMARY KEY (">> \o col1 \o <<", ">> \o col2 \o <<")">>,
                     <<");">> >>,
                !.fks = @ \o << Constraint(table1, col1, pk1[1]),
                                Constraint(table2, col2, pk2[1]) >>,
                !.indexes = Append(@,
                  <<"CREATE INDEX ", "IF NOT EXISTS ">>
                    \o constraintName(<<"i","d","x","_","j","u","n","c">>,
                                      joinTableName, table2.name)
                    \o <<" ON ">> \o quoteId(joinTableName) \o <<"(">> \o col2 \o <<");">>)]

\* the `lines` array before the final join
sqlLinesPg(tbls, rels, now) ==
  LET keys == relationKeysPg(tbls, rels)
      junctions == junctionsPg(tbls, rels, Len(rels))
      fkStatements == SeqMap(keys, LAMBDA e : e.fk) \o junctions.fks
      indexStatements == SeqMap(keys, LAMBDA e : e.index) \o junctions.indexes
  IN headerLinesPg(now) \o enumLinesPg(tbls) \o tableLinesPg(tbls)
       \o << <<"-- [3] Foreign Keys & Indices">> >>
       \o << <<"-- [4] Junction Tables (Many-to-Many)">> >>
       \o junctions.lines \o << <<>> >>
       \o (IF Len(fkStatements) > 0 THEN fkStatements \o << <<>> >> ELSE <<>>)
       \o (IF Len(indexStatements) > 0
           THEN << <<"-- Indices for performance">> >> \o indexStatements \o << <<>> >>
           ELSE <<>>)

generateSQLPg(tbls, rels, now) == JoinWith(sqlLinesPg(tbls, rels, now), <<"\n">>)

(***************************************************************************)
(* The store as one value, and the inputs the user interface passes.       *)
(***************************************************************************)
State ==
  [tables |-> tables, relations |-> relations, activeLink |-> activeLink,
   selected |-> selected, selectedRelationId |-> selectedRelationId,
   history |-> history, uuid |-> uuid, viewport |-> viewport]

Graph(s) == [tables |-> s.tables, relations |-> s.relations]

TableNames == {<<"t">>}
ColumnNames == {<<"i","d">>, <<"t","_","i","d">>}
TypeNames == {"uuid"}
InitialPositions == {<<200, 150>>, <<300, 200>>}
DragPositions == {<<20, 40>>}
Flags == {"isPrimary", "isNullable"}
Cardinalities == {"one-to-one", "one-to-many", "many-to-many"}

TableIds(s) == {t.id : t \in Range(s.tables)}
RelationIds(s) == {r.id : r \in Range(s.relations)}
ColumnIds(tbl) == {c.id : c \in Range(tbl.columns)}
\* the (table, column) pairs the column rows of the table nodes pass
ColumnArgs(s) ==
  UNION {{Endpoint(t.id, c) : c \in ColumnIds(t)} : t \in Range(s.tables)}
\* a missing column of an existing table, and a missing table
MissingColumnArgs(s) ==
  {Endpoint(s.tables[i].id, NoId) : i \in {1} \cap DOMAIN s.tables}
    \cup {Endpoint(NoId, NoId)}
TableArgs(s) == TableIds(s) \cup {NoId}
RelationArgs(s) == RelationIds(s) \cup {NoId}

Op(name) ==
  [op |-> name, tableId |-> NoId, columnId |-> NoId, relationId |-> NoId,
   cardinality |-> "", reverse |-> FALSE, missing |-> FALSE,
   key |-> "", name |-> <<>>, json |-> <<>>]

\* one store operation: s2 is the operation's result on State
Apply(op, s2) ==
  /\ steps < MaxSteps
  /\ UNCHANGED pending
  /\ tables' = s2.tables
  /\ relations' = s2.relations
  /\ activeLink' = s2.activeLink
  /\ selected' = s2.selected
  /\ selectedRelationId' = s2.selectedRelationId
  /\ history' = s2.history
  /\ uuid' = s2.uuid
  /\ viewport' = s2.viewport
  /\ lastOp' = op
  /\ pre' = State
  /\ steps' = steps + 1
  /\ UNCHANGED <<clock, calls>>

(***************************************************************************)
(* Actions: one per store operation.                                       *)
(***************************************************************************)
AddTable ==
  /\ Len(tables) < MaxTables
  /\ \E p \in InitialPositions :
       Apply(Op("addTable"), addTable(State, p[1], p[2]))

RenameTable ==
  \E id \in TableArgs(State), name \in TableNames :
    Apply([Op("renameTable") EXCEPT !.tableId = id, !.missing = id = NoId],
          renameTable(State, id, name))

AddColumn ==
  \E id \in TableArgs(State) :
    /\ \A t \in Range(tables) : t.id = id => Len(t.columns) < MaxColumns
    /\ Apply([Op("addColumn") EXCEPT !.tableId = id, !.missing = id = NoId],
             addColumn(State, id))

UpdateColumn ==
  \/ \E a \in ColumnArgs(State) :
       \/ \E name \in ColumnNames :
            Apply([Op("updateColumn") EXCEPT !.tableId = a.tableId, !.columnId = a.columnId,
                                             !.key = "name", !.name = name],
                  updateColumn(State, a.tableId, a.columnId, "name", name))
       \/ \E type \in TypeNames :
            Apply([Op("updateColumn") EXCEPT !.tableId = a.tableId, !.columnId = a.columnId,
                                             !.key = "type"],
                  updateColumn(State, a.tableId, a.columnId, "type", type))
  \/ \E a \in MissingColumnArgs(State) :
       Apply([Op("updateColumn") EXCEPT !.tableId = a.tableId, !.missing = TRUE,
                                        !.key = "name", !.name = <<"i","d">>],
             updateColumn(State, a.tableId, a.columnId, "name", <<"i","d">>))

RemoveColumn ==
  \E a \in ColumnArgs(State) \cup MissingColumnArgs(State) :
    Apply([Op("removeColumn") EXCEPT !.tableId = a.tableId, !.columnId = a.columnId,
                                     !.missing = a.columnId = NoId],
          removeColumn(State, a.tableId, a.columnId))

ToggleColumnFlag ==
  \/ \E a \in ColumnArgs(State), flag \in Flags :
       Apply([Op("toggleColumnFlag") EXCEPT !.tableId = a.tableId, !.columnId = a.columnId],
             toggleColumnFlag(State, a.tableId, a.columnId, flag))
  \/ \E a \in MissingColumnArgs(State) :
       Apply([Op("toggleColumnFlag") EXCEPT !.tableId = a.tableId, !.missing = TRUE],
             toggleColumnFlag(State, a.tableId, a.columnId, "isPrimary"))

UpdateTablePosition ==
  \E id \in TableArgs(State), p \in DragPositions :
    Apply([Op("updateTablePosition") EXCEPT !.tableId = id, !.missing = id = NoId],
          updateTablePosition(State, id, p[1], p[2]))

StartRelation ==
  \E a \in ColumnArgs(State) :
    /\ Apply([Op("startRelation") EXCEPT !.tableId = a.tableId, !.columnId = a.columnId],
             startRelation(State, a.tableId, a.columnId))

CommitRelation ==
  \E a \in ColumnArgs(State) :
    /\ Apply([Op("commitRelation") EXCEPT !.tableId = a.tableId, !.columnId = a.columnId],
             commitRelation(State, a.tableId, a.columnId))

CancelRelation == Apply(Op("cancelRelation"), cancelRelation(State))

RemoveTable ==
  \E id \in TableArgs(State) :
    Apply([Op("removeTable") EXCEPT !.tableId = id, !.missing = id = NoId],
          removeTable(State, id))

DeleteTable ==
  \E id \in TableArgs(State) :
    Apply([Op("deleteTable") EXCEPT !.tableId = id, !.missing = id = NoId],
          deleteTable(State, id))

SelectTable ==
  \E id \in TableIds(State), additive \in BOOLEAN :
    Apply([Op("selectTable") EXCEPT !.tableId = id],
          selectTable(State, id, additive))

ClearSelection == Apply(Op("clearSelection"), clearSelection(State))

DeleteSelected == Apply(Op("deleteSelected"), deleteSelected(State))

SelectRelation ==
  \E id \in {<<r>> : r \in RelationIds(State)} \cup {Null} :
    Apply(Op("selectRelation"), selectRelation(State, id))

UpdateRelationCardinality ==
  \/ \E id \in RelationIds(State), cardinality \in Cardinalities, reverse \in BOOLEAN :
       Apply([Op("updateRelationCardinality") EXCEPT
                 !.relationId = id, !.cardinality = cardinality, !.reverse = reverse],
             updateRelationCardinality(State, id, cardinality, reverse))
  \/ Apply([Op("updateRelationCardinality") EXCEPT
               !.cardinality = "one-to-many", !.missing = TRUE],
           updateRelationCardinality(State, NoId, "one-to-many", FALSE))

DeleteRelation ==
  \E id \in RelationArgs(State) :
    Apply([Op("deleteRelation") EXCEPT !.relationId = id, !.missing = id = NoId],
          deleteRelation(State, id))

RecordHistory == Apply(Op("recordHistory"), recordHistory(State))

Undo == Apply(Op("undo"), undo(State))

Redo == Apply(Op("redo"), redo(State))

(***************************************************************************)
(* Initial stores.  EmptyStore is the store as created; every other one is *)
(* the result of a sequence of store operations on EmptyStore, computed    *)
(* with the operators above (history included).                            *)
(***************************************************************************)
\* the scale is counted in hundredths: 100 stands for 1
DefaultViewport == [x |-> 0, y |-> 0, scale |-> 100]

EmptyStore ==
  [tables |-> <<>>, relations |-> <<>>, activeLink |-> Null,
   selected |-> <<>>, selectedRelationId |-> Null,
   history |-> [past |-> <<>>, future |-> <<>>], uuid |-> 1,
   viewport |-> DefaultViewport]

\* tables 1 and 2, each with one column (3 on table 1, 4 on table 2)
PlainStore ==
  addColumn(addColumn(addTable(addTable(EmptyStore, 200, 150), 300, 200), 1), 2)

\* a link started on column 3 while no table has a primary key
PendingStore == startRelation(PlainStore, 1, 3)

\* column 3 of table 1 is a primary key
KeyedStore == toggleColumnFlag(PlainStore, 1, 3, "isPrimary")

\* relation 6 from (1,3) to (2,4); commitRelation added column 5 to table 2
LinkedStore == commitRelation(startRelation(KeyedStore, 1, 3), 2, 4)

\* relation 6 re-cardinalized: column 7 on table 2 references (1,3)
RebuiltStore == updateRelationCardinality(LinkedStore, 6, "one-to-many", FALSE)

\* table 1 renamed "t", its key column renamed "id", then linked to table 2
NamedStore ==
  commitRelation(
    startRelation(
      updateColumn(renameTable(KeyedStore, 1, <<"t">>), 1, 3, "name", <<"i","d">>),
      1, 3),
    2, 4)

\* a third table 7 with column 8, also a child of (1,3): relation 10
ThreeStore ==
  commitRelation(
    startRelation(addColumn(addTable(LinkedStore, 200, 150), 7), 1, 3),
    7, 8)

\* the same link started from the child side: column 4 of table 2 is pending
PendingChildStore == startRelation(KeyedStore, 2, 4)

\* a link is pending on the key column 3 of table 1
PendingKeyedStore == startRelation(KeyedStore, 1, 3)

\* the last operation of LinkedStore undone: `future` holds one snapshot
UndoneStore == undo(LinkedStore)

\* a drag has started on a table node: the handler has called recordHistory
DragStore == recordHistory(LinkedStore)

\* relation 6 made many-to-many, and relation 6 flipped to N-1
ManyStore == updateRelationCardinality(LinkedStore, 6, "many-to-many", FALSE)
ReversedStore == updateRelationCardinality(LinkedStore, 6, "one-to-many", TRUE)

\* the parent column of relation 6 removed
DanglingStore == removeColumn(LinkedStore, 1, 3)

\* table 1 renamed "t"; column 4 of table 2 is an ordinary column the user
\* named "t_id"; then (1,3) linked to (2,4)
ShadowStore ==
  commitRelation(
    startRelation(
      updateColumn(renameTable(KeyedStore, 1, <<"t">>), 2, 4, "name", <<"t","_","i","d">>),
      1, 3),
    2, 4)

\* a relation inside table 1: from its key column 3 to its second column 5
SelfStore ==
  commitRelation(startRelation(addColumn(KeyedStore, 1), 1, 3), 1, 5)

\* table 1, the parent of relations 6 and 10, is selected
SelectedStore == selectTable(ThreeStore, 1, FALSE)

\* one table renamed MAX_HISTORY times: `past` is full and the snapshot of
\* the empty graph has been evicted
RECURSIVE RenameTimes(_, _)
RenameTimes(s, n) ==
  IF n = 0 THEN s
  ELSE LET renamed == renameTable(s, 1, <<"t">>)
       IN IF Len(renamed.history.past) > 0 /\ Len(renamed.tables) > 0
          THEN RenameTimes(renamed, n - 1) ELSE renamed
FullStore == RenameTimes(addTable(EmptyStore, 200, 150), MAX_HISTORY)

\* every snapshot of FullStore undone: `past` is empty, `future` is full
RECURSIVE UndoTimes(_, _)
UndoTimes(s, n) ==
  IF n = 0 THEN s
  ELSE LET undone == undo(s)
       IN IF Len(undone.history.future) > 0 /\ Len(undone.tables) > 0
          THEN UndoTimes(undone, n - 1) ELSE undone
RewoundStore == UndoTimes(FullStore, MAX_HISTORY)

\* table 2 is the child of two parents with different names: of table 1
\* ("t", FK column 5 "t_id", relation 6) and of table 7 ("new_table", key
\* column 8, FK column 9 "new_table_id", relation 10)
TwoParentStore ==
  commitRelation(
    startRelation(
      toggleColumnFlag(addColumn(addTable(NamedStore, 200, 150), 7), 7, 8, "isPrimary"),
      7, 8),
    2, 4)

\* a second link is pending from (1,3) while table 2 already has the FK
\* column 5 that commitRelation named after table 1
RelinkStore == startRelation(LinkedStore, 1, 3)

\* tables 1 and 2 both have a key column (3 and 4); table 1 has a second,
\* ordinary column 5, on which a link is pending
PendingSpareStore ==
  startRelation(toggleColumnFlag(addColumn(KeyedStore, 1), 2, 4, "isPrimary"), 1, 5)

\* the canvas panned, column 3 of table 1 pending, table 1 and relation 6
\* selected
BusyStore ==
  selectRelation(
    selectTable(startRelation(setViewport(LinkedStore, 40, -20), 1, 3), 1, FALSE),
    <<6>>)

\* relations 10 and 6 of ThreeStore re-cardinalized, in that order: column
\* 12 on table 2 references the key (1,3) on behalf of relation 6
SharedParentStore ==
  updateRelationCardinality(
    updateRelationCardinality(ThreeStore, 10, "one-to-many", FALSE),
    6, "one-to-many", FALSE)

Seeds == {EmptyStore, PendingStore, KeyedStore, LinkedStore, RebuiltStore,
          NamedStore, ThreeStore, PendingChildStore, PendingKeyedStore,
          UndoneStore, DragStore, ManyStore, ReversedStore, DanglingStore,
          ShadowStore, SelfStore, SelectedStore, FullStore, RewoundStore,
          TwoParentStore, RelinkStore, PendingSpareStore, BusyStore,
          SharedParentStore}

Init ==
  \E seed \in Seeds :
    /\ tables = seed.tables
    /\ relations = seed.relations
    /\ activeLink = seed.activeLink
    /\ selected = seed.selected
    /\ selectedRelationId = seed.selectedRelationId
    /\ history = seed.history
    /\ uuid = seed.uuid
    /\ viewport = seed.viewport
    /\ pending = <<>>
    /\ lastOp = Op("init")
    /\ pre = seed
    /\ steps = 0
    /\ clock = 0
    /\ calls = <<>>

(***************************************************************************)
(* Project files (lib/projectIO).                                          *)
(***************************************************************************)
\* a plausible slip: the selection and the pending link survive the load
importProjectKeepsSelection(s, json) ==
  [s EXCEPT
     !.tables = IF "tables" \in DOMAIN json THEN json.tables ELSE <<>>,
     !.relations = IF "relations" \in DOMAIN json THEN json.relations ELSE <<>>,
     !.viewport = IF "viewport" \in DOMAIN json THEN json.viewport ELSE DefaultViewport]

\* useDBStore.setState({ tables: json.tables ?? [], ... }): a field the
\* parsed file does not have reads as undefined
importProject(s, json) ==
  [s EXCEPT
     !.tables = IF "tables" \in DOMAIN json THEN json.tables ELSE <<>>,
     !.relations = IF "relations" \in DOMAIN json THEN json.relations ELSE <<>>,
     !.viewport = IF "viewport" \in DOMAIN json THEN json.viewport ELSE DefaultViewport,
     !.selected = <<>>,
     !.selectedRelationId = Null,
     !.activeLink = Null]

Id == <<"i","d">>
Users == <<"u","s","e","r","s">>
Posts == <<"p","o","s","t","s">>
UserId == <<"u","s","e","r","_","i","d">>
Students == <<"s","t","u","d","e","n","t","s">>
Courses == <<"c","o","u","r","s","e","s">>

PlainColumn(id, name, type) ==
  Column(id, name, type, JsFalse, JsFalse, JsFalse, JsTrue, Null)
KeyColumn(id, name, type) ==
  Column(id, name, type, JsTrue, JsFalse, JsFalse, JsFalse, Null)
ForeignColumn(id, name, type, tableId, columnId) ==
  Column(id, name, type, JsFalse, JsTrue, JsFalse, JsTrue, <<Endpoint(tableId, columnId)>>)
Table(id, name, columns) ==
  [id |-> id, name |-> name, x |-> 0, y |-> 0, columns |-> columns]
Relation(id, from, to, cardinality, deleteRule) ==
  [id |-> id, from |-> from, to |-> to, cardinality |-> cardinality,
   deleteRule |-> deleteRule, updateRule |-> "cascade"]

\* users(id uuid PK, name text), posts(id uuid PK, user_id uuid FK -> users.id,
\* title text), one-to-many from users.id to posts.user_id
UsersPostsProject ==
  [tables |->
     << Table(101, Users, << KeyColumn(103, Id, "uuid"),
                             PlainColumn(104, <<"n","a","m","e">>, "text") >>),
        Table(102, Posts, << KeyColumn(105, Id, "uuid"),
                             ForeignColumn(106, UserId, "uuid", 101, 103),
                             PlainColumn(107, <<"t","i","t","l","e">>, "text") >>) >>,
   relations |->
     << Relation(108, Endpoint(101, 103), Endpoint(102, 106), "one-to-many", "cascade") >>]

\* a(id PK, b_id FK -> b.id) and b(id PK, a_id FK -> a.id): a cycle
CyclicProject ==
  [tables |->
     << Table(101, <<"a">>, << KeyColumn(103, Id, "int"),
                               ForeignColumn(104, <<"b","_","i","d">>, "int", 102, 105) >>),
        Table(102, <<"b">>, << KeyColumn(105, Id, "int"),
                               ForeignColumn(106, <<"a","_","i","d">>, "int", 101, 103) >>) >>,
   relations |->
     << Relation(107, Endpoint(102, 105), Endpoint(101, 104), "one-to-one", "set-null"),
        Relation(108, Endpoint(101, 103), Endpoint(102, 106), "one-to-many", "restrict") >>]

\* students and courses, both with integer keys, many-to-many, stored once
\* in each direction; the file has no viewport
StudentsCoursesProject ==
  [tables |->
     << Table(101, Students, << KeyColumn(103, Id, "int") >>),
        Table(102, Courses, << KeyColumn(104, Id, "int") >>) >>,
   relations |->
     << Relation(105, Endpoint(101, 103), Endpoint(102, 104), "many-to-many", "restrict"),
        Relation(106, Endpoint(102, 104), Endpoint(101, 103), "many-to-many", "restrict") >>]

\* notes(id int PK, title text, isNullable false; body text, written by hand
\* without an isNullable property)
NotesProject ==
  [tables |->
     << Table(101, <<"n","o","t","e","s">>,
              << KeyColumn(102, <<"i","d">>, "int"),
                 Column(103, <<"t","i","t","l","e">>, "text",
                        JsFalse, JsFalse, JsFalse, JsFalse, Null),
                 Column(104, <<"b","o","d","y">>, "text",
                        JsFalse, JsFalse, JsFalse, Undefined, Null) >>) >>,
   relations |-> <<>>]

\* customers(id PK), orders(id PK, customer_id FK -> customers.id); the
\* relation is stored from the child's column to the parent's key, with
\* deleteRule set-null and updateRule restrict
OrdersProject ==
  [tables |->
     << Table(101, <<"c","u","s","t","o","m","e","r","s">>,
              << KeyColumn(103, <<"i","d">>, "int") >>),
        Table(102, <<"o","r","d","e","r","s">>,
              << KeyColumn(104, <<"i","d">>, "int"),
                 ForeignColumn(105, <<"c","u","s","t","o","m","e","r","_","i","d">>,
                               "int", 101, 103) >>) >>,
   relations |->
     << [Relation(106, Endpoint(102, 105), Endpoint(101, 103), "one-to-many", "set-null")
           EXCEPT !.updateRule = "restrict"] >>]

ProjectFiles ==
  {UsersPostsProject, CyclicProject, StudentsCoursesProject, NotesProject,
   OrdersProject}

\* files that lack fields, and a file as saveProject writes it
TablesOnlyFile == [tables |-> UsersPostsProject.tables]
RelationsOnlyFile == [relations |-> UsersPostsProject.relations]
ViewportOnlyFile == [viewport |-> [x |-> 120, y |-> 0 - 40, scale |-> 150]]
BareFile == [version |-> 1]
SavedFile ==
  [tables |-> ThreeStore.tables, relations |-> ThreeStore.relations,
   viewport |-> [x |-> 120, y |-> 0 - 40, scale |-> 150]]
ImportFiles ==
  {UsersPostsProject, TablesOnlyFile, RelationsOnlyFile, ViewportOnlyFile,
   BareFile, SavedFile}

\* a file whose two tables share an id
TwinFile ==
  [tables |-> << Table(201, <<"a">>, << KeyColumn(202, Id, "int") >>),
                 Table(201, <<"b">>, << KeyColumn(203, Id, "int") >>) >>,
   relations |-> <<>>]
EmptyFile == [tables |-> <<>>, relations |-> <<>>]

(***************************************************************************)
(* The importer of the application shell (App.tsx).  ProjectCompiler and   *)
(* getLayoutedElements are collaborators of the shell: what they return is *)
(* an input here.                                                          *)
(***************************************************************************)
\* what the file picker hands over, and what ProjectCompiler.compile returns
RawFiles == {RelationsOnlyFile, TablesOnlyFile}
PatchedFiles == {UsersPostsProject, SavedFile, TwinFile, EmptyFile}
CompileResults ==
  {[patchedData |-> patched, requiresLayout |-> layout] :
     patched \in PatchedFiles, layout \in BOOLEAN}

\* steps 2 to 5 of handleSafeImport
newUnique(existing, incoming) ==
  LET existingIds == {e.id : e \in Range(existing)}
  IN SelectSeq(incoming, LAMBDA e : e.id \notin existingIds)

\* a plausible slip: every incoming item is appended
mergeProjectAll(s, patchedData) ==
  [viewport |-> s.viewport,
   tables |-> s.tables \o patchedData.tables,
   relations |-> s.relations \o patchedData.relations]

mergeProject(s, patchedData) ==
  [viewport |-> s.viewport,
   tables |-> s.tables \o newUnique(s.tables, patchedData.tables),
   relations |-> s.relations \o newUnique(s.relations, patchedData.relations)]

\* the file is taken: it has tables, and so has the compiled project
Accepted(rawData, result) ==
  /\ "tables" \in DOMAIN rawData
  /\ Len(result.patchedData.tables) # 0

\* the handler up to `await importProject(safeFile)`.
\* JSON.stringify drops the properties whose value is undefined, and
\* JSON.parse reads them back as undefined: on the values of this model,
\* where a missing property and an undefined one are the same value, the
\* text read back is the project written
handleSafeImport(s, rawData, result) ==
  IF ~Accepted(rawData, result) THEN s
  ELSE importProject(s, mergeProject(s, result.patchedData))

\* whether the handler goes on to tidy the layout
LayoutRequested(s, rawData, result) ==
  /\ Accepted(rawData, result)
  /\ Len(newUnique(s.tables, result.patchedData.tables)) > 0
  /\ result.requiresLayout

\* the positions getLayoutedElements gives to the n-th node
Layouts == {"row", "column"}
LayoutPosition(layout, n) ==
  IF layout = "row" THEN <<300 * (n - 1), 0>> ELSE <<0, 200 * (n - 1)>>

\* layoutedNodes.forEach(node => store.updateTablePosition(node.id, ...)),
\* one node per table of the store
RECURSIVE PositionNodes(_, _, _, _)
PositionNodes(s, ids, layout, n) ==
  IF n > Len(ids) THEN s
  ELSE LET p == LayoutPosition(layout, n)
       IN PositionNodes(updateTablePosition(s, ids[n], p[1], p[2]), ids, layout, n + 1)

handleTidyUp(s, layout) ==
  PositionNodes(s, SeqMap(s.tables, LAMBDA t : t.id), layout, 1)

PanPositions == {<<40, 0 - 20>>}

SetViewport ==
  \E p \in PanPositions :
    Apply(Op("setViewport"), setViewport(State, p[1], p[2]))

ImportProject ==
  \E json \in ImportFiles :
    Apply([Op("importProject") EXCEPT !.json = <<json>>], importProject(State, json))

\* one step of a handler of the shell: s2 is its result on State, and
\* `then` is what the handler awaits to do next
Handle(op, s2, then) ==
  /\ tables' = s2.tables
  /\ relations' = s2.relations
  /\ activeLink' = s2.activeLink
  /\ selected' = s2.selected
  /\ selectedRelationId' = s2.selectedRelationId
  /\ history' = s2.history
  /\ uuid' = s2.uuid
  /\ viewport' = s2.viewport
  /\ pending' = pending \o then
  /\ lastOp' = op
  /\ pre' = State
  /\ UNCHANGED <<clock, calls>>

HandleSafeImport ==
  /\ steps < MaxSteps
  /\ steps' = steps + 1
  /\ \E rawData \in RawFiles, result \in CompileResults :
       Handle([Op("handleSafeImport") EXCEPT
                  !.json = <<result.patchedData>>,
                  !.missing = ~Accepted(rawData, result)],
              handleSafeImport(State, rawData, result),
              IF LayoutRequested(State, rawData, result)
              THEN <<"handleTidyUp">> ELSE <<>>)

\* the Tidy button
HandleTidyUp ==
  /\ steps < MaxSteps
  /\ steps' = steps + 1
  /\ \E layout \in Layouts :
       Handle(Op("handleTidyUp"), handleTidyUp(State, layout), <<>>)

\* the rest of handleSafeImport: `await handleTidyUp()`
TidyUpAfterImport ==
  /\ pending # <<>>
  /\ UNCHANGED steps
  /\ \E layout \in Layouts :
       /\ tables' = handleTidyUp(State, layout).tables
       /\ pending' = Tail(pending)
       /\ lastOp' = [Op("handleTidyUp") EXCEPT !.key = "handleSafeImport"]
       /\ pre' = State
       /\ UNCHANGED <<relations, activeLink, selected, selectedRelationId,
                      history, uuid, viewport, clock, calls>>

Next ==
  \/ AddTable
  \/ RenameTable
  \/ AddColumn
  \/ UpdateColumn
  \/ RemoveColumn
  \/ ToggleColumnFlag
  \/ UpdateTablePosition
  \/ StartRelation
  \/ CommitRelation
  \/ CancelRelation
  \/ RemoveTable
  \/ DeleteTable
  \/ SelectTable
  \/ ClearSelection
  \/ DeleteSelected
  \/ SelectRelation
  \/ UpdateRelationCardinality
  \/ DeleteRelation
  \/ RecordHistory
  \/ Undo
  \/ Redo
  \/ SetViewport
  \/ ImportProject
  \/ HandleSafeImport
  \/ HandleTidyUp
  \/ TidyUpAfterImport

Spec == Init /\ [][Next]_vars

\* four keyed tables "a", "b_c", "a_b", "c" (ids 1..4, key columns 5..8),
\* a many-to-many relation between "a" and "b_c" (relation 10) and one
\* between "a_b" and "c" (relation 12)
FourTables ==
  LET added == addTable(addTable(addTable(addTable(EmptyStore, 200, 150),
                                          300, 200), 200, 150), 300, 200)
      named == renameTable(renameTable(renameTable(renameTable(added,
                 1, <<"a">>), 2, <<"b","_","c">>), 3, <<"a","_","b">>), 4, <<"c">>)
      columns == addColumn(addColumn(addColumn(addColumn(named, 1), 2), 3), 4)
  IN toggleColumnFlag(toggleColumnFlag(toggleColumnFlag(toggleColumnFlag(columns,
       1, 5, "isPrimary"), 2, 6, "isPrimary"), 3, 7, "isPrimary"), 4, 8, "isPrimary")
CollidingStore ==
  LET first == updateRelationCardinality(
                 commitRelation(startRelation(FourTables, 1, 5), 2, 6),
                 10, "many-to-many", FALSE)
  IN updateRelationCardinality(
       commitRelation(startRelation(first, 3, 7), 4, 8),
       12, "many-to-many", FALSE)

\* table 2 is the child of tables 1 and 7, and both relations have been
\* re-cardinalized: table 2 has a column referencing (1,3) and a column
\* referencing (7,8)
TwoKeysStore ==
  updateRelationCardinality(
    updateRelationCardinality(TwoParentStore, 6, "one-to-many", FALSE),
    10, "one-to-many", FALSE)
\* ... then table 7 is removed, or its key column 8 is
OrphanTableStore == removeTable(TwoKeysStore, 7)
OrphanColumnStore == removeColumn(TwoKeysStore, 7, 8)

\* the stores the SQL panel is opened on
SqlInputs ==
  Seeds \cup {CollidingStore, OrphanTableStore, OrphanColumnStore}
    \cup {importProject(EmptyStore, json) : json \in ProjectFiles}

(***************************************************************************)
(* The SQL panel: generateSQL is called on the store's graph, again and    *)
(* again, while the wall clock advances.  `calls` is the log of the calls. *)
(***************************************************************************)
SqlInit ==
  \E input \in SqlInputs :
    /\ tables = input.tables
    /\ relations = input.relations
    /\ activeLink = input.activeLink
    /\ selected = input.selected
    /\ selectedRelationId = input.selectedRelationId
    /\ history = input.history
    /\ uuid = input.uuid
    /\ viewport = input.viewport
    /\ pending = <<>>
    /\ lastOp = Op("init")
    /\ pre = input
    /\ steps = 0
    /\ clock = 0
    /\ calls = <<>>

storeVars == <<tables, relations, activeLink, selected, selectedRelationId,
               history, uuid, viewport, pending, lastOp, pre, steps>>

Tick ==
  /\ clock < MaxClock
  /\ clock' = clock + 1
  /\ UNCHANGED <<storeVars, calls>>

GenerateSQL ==
  /\ Len(calls) < MaxCalls
  /\ calls' = Append(calls, [generator |-> "sqlgenerator",
                             text |-> generateSQL(tables, relations)])
  /\ UNCHANGED <<storeVars, clock>>

GenerateSQLPg ==
  /\ Len(calls) < MaxCalls
  /\ calls' = Append(calls, [generator |-> "sqlGenerator",
                             text |-> generateSQLPg(tables, relations, clock)])
  /\ UNCHANGED <<storeVars, clock>>

SqlNext ==
  \/ Tick
  \/ GenerateSQL
  \/ GenerateSQLPg

SqlSpec == SqlInit /\ [][SqlNext]_vars


(***************************************************************************)
(* Vocabulary of the properties.  `pre` is the store just before the last  *)
(* operation, `lastOp` the operation and its arguments.                    *)
(***************************************************************************)
RecordingMutators ==
  {"addTable", "renameTable", "addColumn", "updateColumn", "removeColumn",
   "toggleColumnFlag", "commitRelation", "updateRelationCardinality",
   "deleteRelation", "deleteTable", "removeTable", "deleteSelected"}
Mutators == RecordingMutators \cup {"updateTablePosition"}
TableRemovals == {"deleteTable", "removeTable", "deleteSelected"}

AllColumns(tbls) == UNION {Range(t.columns) : t \in Range(tbls)}
EndpointExists(tbls, ep) ==
  \E t \in Range(tbls) : t.id = ep.tableId /\ ep.columnId \in ColumnIds(t)
ReferencingColumns(tbl, ep) ==
  {i \in 1..Len(tbl.columns) : ReferencesTarget(tbl.columns[i], ep.tableId, ep.columnId)}

\* C1: for every one-to-many relation the child (`to`) table has exactly one
\* column whose references equals the `from` endpoint, and no column of
\* another table references that endpoint under the same name.
C1_OneToManyHasExactlyOneFK ==
  \A r \in Range(relations) :
    r.cardinality = "one-to-many" =>
      \E child \in Range(tables) :
        /\ child.id = r.to.tableId
        /\ Cardinality(ReferencingColumns(child, r.from)) = 1
        /\ \A i \in ReferencingColumns(child, r.from) :
             \A other \in Range(tables) :
               other.id # child.id =>
                 \A j \in ReferencingColumns(other, r.from) :
                   other.columns[j].name # child.columns[i].name

\* C2: after any single mutating operation, undo() makes tables and
\* relations equal to their values just before the operation.
C2_UndoRestoresPreState ==
  (lastOp.op \in Mutators /\ ~lastOp.missing) => Graph(undo(State)) = Graph(pre)

\* C3: after any mutating operation, undo() then redo() leaves tables and
\* relations equal to their values right after the operation.
C3_RedoRestoresPostState ==
  (lastOp.op \in Mutators /\ ~lastOp.missing) =>
    Graph(redo(undo(State))) = Graph(State)

\* ids that uuid() returned at or after `firstFresh` are erased
EraseFreshIds(tbls, firstFresh) ==
  SeqMap(tbls, LAMBDA t :
    [t EXCEPT !.columns = SeqMap(t.columns, LAMBDA c :
        IF c.id >= firstFresh THEN [c EXCEPT !.id = NoId] ELSE c)])

\* C4: updateRelationCardinality(r, c, reverse) applied a second time with
\* the same arguments yields the tables (up to the id of the rebuilt FK
\* column) and relations of the first application, for every reverse.
C4_CardinalityIdempotent ==
  (lastOp.op = "updateRelationCardinality" /\ ~lastOp.missing) =>
    LET twice == updateRelationCardinality(State, lastOp.relationId,
                                           lastOp.cardinality, lastOp.reverse)
    IN /\ EraseFreshIds(twice.tables, pre.uuid) = EraseFreshIds(tables, pre.uuid)
       /\ twice.relations = relations

\* the last operation committed a pending link between two existing
\* tables, different endpoints, and no column of either table is primary
NoPrimaryKeyCommit ==
  /\ lastOp.op = "commitRelation"
  /\ pre.activeLink # Null
  /\ pre.activeLink[1] # Endpoint(lastOp.tableId, lastOp.columnId)
  /\ \E tA \in Range(pre.tables), tB \in Range(pre.tables) :
       /\ tA.id = pre.activeLink[1].tableId
       /\ tB.id = lastOp.tableId
       /\ \A c \in Range(tA.columns) \cup Range(tB.columns) : ~Truthy(c.isPrimary)

\* C5: a commit between two tables of which neither has a primary key adds
\* no relation and no column: tables and relations are as before the call.
C5_MissingPrimaryKeyRejected ==
  NoPrimaryKeyCommit => (tables = pre.tables /\ relations = pre.relations)

C5_Witness ==
  NoPrimaryKeyCommit /\ Len(pre.tables) = 2 /\ activeLink = Null

\* the existing tables the last table-removal operation was asked to remove
RemovedTables ==
  IF lastOp.op = "deleteSelected" THEN Range(pre.selected) \cap TableIds(pre)
  ELSE {lastOp.tableId} \cap TableIds(pre)

\* C6: after deleteTable / removeTable / deleteSelected of table t, t is
\* gone, no relation has an endpoint on t and no column references t.
C6_TableRemovalCascades ==
  lastOp.op \in TableRemovals =>
    \A t \in RemovedTables :
      /\ t \notin TableIds(State)
      /\ \A r \in Range(relations) : r.from.tableId # t /\ r.to.tableId # t
      /\ \A c \in AllColumns(tables) : c.references = Null \/ c.references[1].tableId # t

\* a foreign-key column pointing at table t: its references names t, or it
\* is the isForeign column commitRelation named after t
PointsAt(col, tbl) ==
  \/ (col.references # Null /\ col.references[1].tableId = tbl.id)
  \/ (Truthy(col.isForeign) /\ col.name = makeFKName(tbl.name))

\* C7: deleteTable(t) keeps every relation with no endpoint on t unchanged,
\* and on every remaining table keeps, unchanged and in order, every column
\* that is not a foreign-key column pointing at t.
C7_DeleteTableFrame ==
  (lastOp.op = "deleteTable" /\ ~lastOp.missing) =>
    LET gone == CHOOSE t \in Range(pre.tables) : t.id = lastOp.tableId
        Unrelated(c) == ~PointsAt(c, gone)
    IN /\ relations = SelectSeq(pre.relations,
            LAMBDA r : r.from.tableId # gone.id /\ r.to.tableId # gone.id)
       /\ \A t \in Range(pre.tables) :
            t.id # gone.id =>
              \E u \in Range(tables) :
                /\ u.id = t.id
                /\ SelectSeq(u.columns, Unrelated) = SelectSeq(t.columns, Unrelated)

\* C8: both endpoints of every relation name an existing table and an
\* existing column of that table.
C8_RelationEndpointsExist ==
  \A r \in Range(relations) :
    EndpointExists(tables, r.from) /\ EndpointExists(tables, r.to)

\* C9: every column with isForeign = true has references that resolve to an
\* existing table and column; every other column has no references.
C9_ForeignFlagMatchesReferences ==
  \A c \in AllColumns(tables) :
    IF Truthy(c.isForeign)
    THEN c.references # Null /\ EndpointExists(tables, c.references[1])
    ELSE c.references = Null

RecordedWhenFull ==
  /\ lastOp.op \in RecordingMutators \cup {"recordHistory"}
  /\ Len(pre.history.past) = MAX_HISTORY

\* C11: both history stacks hold at most 60 snapshots; recordHistory on a
\* full `past` evicts the oldest snapshot and keeps the 59 newer ones, in
\* order, followed by the new snapshot.
C11_HistoryBounded ==
  /\ Len(history.past) <= MAX_HISTORY
  /\ Len(history.future) <= MAX_HISTORY
  /\ RecordedWhenFull =>
       /\ Len(history.past) = MAX_HISTORY
       /\ \A i \in 1..(MAX_HISTORY - 1) : history.past[i] = pre.history.past[i + 1]
       /\ history.past[MAX_HISTORY] = Graph(pre)

C11_Witness ==
  /\ RecordedWhenFull
  /\ lastOp.op = "recordHistory"
  /\ pre.history.past[1] # pre.history.past[2]
  /\ history.past[1] = pre.history.past[2]

\* C16: after updateRelationCardinality(r, "many-to-many") on a relation
\* made by commitRelation, neither endpoint table of r has a column with
\* isForeign = true that points at the other endpoint table.
C16_ManyToManyHasNoFK ==
  (/\ lastOp.op = "updateRelationCardinality"
   /\ ~lastOp.missing
   /\ lastOp.cardinality = "many-to-many") =>
    \A r \in Range(relations) :
      r.id = lastOp.relationId =>
        \A a \in Range(tables), b \in Range(tables) :
          {a.id, b.id} = {r.from.tableId, r.to.tableId} =>
            \A c \in Range(a.columns) : ~(Truthy(c.isForeign) /\ PointsAt(c, b))

\* the last operation was a commitRelation on a column other than the
\* pending one
CommittedOther ==
  /\ lastOp.op = "commitRelation"
  /\ pre.activeLink # Null
  /\ pre.activeLink[1] # Endpoint(lastOp.tableId, lastOp.columnId)

\* ... and it was a commitRelation on the pending column itself
CommittedSame ==
  /\ lastOp.op = "commitRelation"
  /\ pre.activeLink # Null
  /\ pre.activeLink[1] = Endpoint(lastOp.tableId, lastOp.columnId)

\* both tables of the committed link exist and one of them has a primary key
Linkable ==
  \E tA \in Range(pre.tables), tB \in Range(pre.tables) :
    /\ tA.id = pre.activeLink[1].tableId
    /\ tB.id = lastOp.tableId
    /\ \E c \in Range(tA.columns) \cup Range(tB.columns) : Truthy(c.isPrimary)

Idle == activeLink = Null
RelationAdded ==
  /\ Len(relations) = Len(pre.relations) + 1
  /\ SubSeq(relations, 1, Len(pre.relations)) = pre.relations

\* the transitions of activeLink on which the claim and the code agree
LinkTransitions ==
  /\ Len(activeLink) <= 1
  /\ lastOp.op = "startRelation" =>
       activeLink = <<Endpoint(lastOp.tableId, lastOp.columnId)>>
  /\ (CommittedSame \/ lastOp.op = "cancelRelation") =>
       (Idle /\ relations = pre.relations)
  /\ (lastOp.op = "commitRelation" /\ pre.activeLink = Null) =>
       (Idle /\ relations = pre.relations)

\* C17 as stated: activeLink holds at most one pending endpoint;
\* startRelation sets it to the clicked endpoint from any state;
\* commitRelation on a different column ends Idle with a relation added;
\* commitRelation on the same column, cancelRelation, and commitRelation
\* while Idle end Idle with no relation added.
C17_LinkStateMachineAsStated ==
  /\ LinkTransitions
  /\ CommittedOther => (Idle /\ RelationAdded)

\* C17 amended: commitRelation on a different column ends Idle, with a
\* relation added when both tables exist and one of them has a primary
\* key, and with no relation added otherwise; the other transitions are as
\* stated.
C17_LinkStateMachine ==
  /\ LinkTransitions
  /\ CommittedOther =>
       /\ Idle
       /\ IF Linkable THEN RelationAdded ELSE relations = pre.relations

C17_Witness ==
  /\ CommittedOther
  /\ Linkable
  /\ RelationAdded
  /\ Idle

\* C18: deleteRelation(r) removes r; it removes the columns named with r's
\* derived FK name from the child table exactly when no other surviving
\* relation goes from the same parent to that child.
C18_DeleteRelationRefCounts ==
  (lastOp.op = "deleteRelation" /\ ~lastOp.missing) =>
    LET r == CHOOSE x \in Range(pre.relations) : x.id = lastOp.relationId
    IN /\ relations = SelectSeq(pre.relations, LAMBDA x : x.id # r.id)
       /\ \A parent \in Range(pre.tables), child \in Range(pre.tables) :
            (parent.id = r.from.tableId /\ child.id = r.to.tableId) =>
              LET fkName == makeFKName(parent.name)
                  needed == \E o \in Range(relations) :
                              o.from.tableId = parent.id /\ o.to.tableId = child.id
              IN \E now \in Range(tables) :
                   /\ now.id = child.id
                   /\ now.columns =
                        IF needed THEN child.columns
                        ELSE SelectSeq(child.columns, LAMBDA c : c.name # fkName)

\* C19: after removeColumn(t, c) no relation has the endpoint (t, c) and no
\* column has references = {t, c}.
C19_RemoveColumnCascades ==
  (lastOp.op = "removeColumn" /\ ~lastOp.missing) =>
    /\ \A r \in Range(relations) :
         /\ r.from # Endpoint(lastOp.tableId, lastOp.columnId)
         /\ r.to # Endpoint(lastOp.tableId, lastOp.columnId)
    /\ \A c \in AllColumns(tables) :
         ~ReferencesTarget(c, lastOp.tableId, lastOp.columnId)

\* C20: a commitRelation that adds a relation appends, when the child has
\* no column with the canonical FK name, exactly one column at the end of
\* the child's columns: nullable, of the parent key's type, isForeign, with
\* references naming the parent table and its key column; when the child
\* has a column of that name, its columns are unchanged.
C20_CommitAppendsForeignKey ==
  (lastOp.op = "commitRelation" /\ RelationAdded) =>
    LET r == relations[Len(relations)]
        parent == CHOOSE t \in Range(pre.tables) : t.id = r.from.tableId
        child == CHOOSE t \in Range(pre.tables) : t.id = r.to.tableId
        now == CHOOSE t \in Range(tables) : t.id = r.to.tableId
        key == primaryKeyOf(parent)[1]
        n == Len(child.columns)
    IN IF \E c \in Range(child.columns) : c.name = makeFKName(parent.name)
       THEN now.columns = child.columns
       ELSE /\ Len(now.columns) = n + 1
            /\ SubSeq(now.columns, 1, n) = child.columns
            /\ now.columns[n + 1].isNullable = JsTrue
            /\ now.columns[n + 1].type = key.type
            /\ now.columns[n + 1].isForeign = JsTrue
            /\ now.columns[n + 1].references # Null
            /\ now.columns[n + 1].references[1].tableId = parent.id
            /\ now.columns[n + 1].references[1].columnId \in {key.id, r.from.columnId}

\* the column an endpoint names, in the tables `tbls`
ColumnAt(tbls, ep) ==
  CHOOSE c \in AllColumns(tbls) :
    \E t \in Range(tbls) : t.id = ep.tableId /\ c \in Range(t.columns) /\ c.id = ep.columnId

\* C21: a commitRelation that succeeds appends exactly one relation, with
\* cardinality one-to-many, deleteRule restrict and updateRule cascade; its
\* `from` is the one of the two clicked endpoints whose column is a primary
\* key and its `to` is the other one, whichever was clicked first.
C21_CommitRelationShape ==
  (lastOp.op = "commitRelation" /\ RelationAdded) =>
    LET r == relations[Len(relations)]
        first == pre.activeLink[1]
        second == Endpoint(lastOp.tableId, lastOp.columnId)
    IN /\ r.cardinality = "one-to-many"
       /\ r.deleteRule = "restrict"
       /\ r.updateRule = "cascade"
       /\ <<r.from, r.to>> \in {<<first, second>>, <<second, first>>}
       /\ Truthy(ColumnAt(pre.tables, r.from).isPrimary)

\* C22: a commitRelation on the pending endpoint itself leaves tables and
\* relations as they were: no relation and no column is added.
C22_SameEndpointAborts ==
  CommittedSame => (tables = pre.tables /\ relations = pre.relations)

\* the pending endpoint was the key column of a table that is already the
\* parent of a relation
C22_Witness ==
  /\ CommittedSame
  /\ Truthy(ColumnAt(pre.tables, pre.activeLink[1]).isPrimary)
  /\ Len(relations) = 1
  /\ Idle

\* C23: after updateRelationCardinality(r, c, reverse) with c one-to-many
\* or one-to-one, no column that referenced an endpoint of r before the call
\* is left; the `to` table of r (endpoints swapped when reverse) has exactly
\* one column referencing r's `from` column, named by fkNameFor after the
\* `from` table and column; no column of the `from` table references r's
\* `to` column.
C23_CardinalityRebuildsForeignKey ==
  (/\ lastOp.op = "updateRelationCardinality"
   /\ ~lastOp.missing
   /\ lastOp.cardinality \in {"one-to-many", "one-to-one"}) =>
    LET old == CHOOSE x \in Range(pre.relations) : x.id = lastOp.relationId
        r == CHOOSE x \in Range(relations) : x.id = lastOp.relationId
    IN /\ r.from = (IF lastOp.reverse THEN old.to ELSE old.from)
       /\ r.to = (IF lastOp.reverse THEN old.from ELSE old.to)
       /\ \A c \in AllColumns(pre.tables) :
            (\/ ReferencesTarget(c, old.from.tableId, old.from.columnId)
             \/ ReferencesTarget(c, old.to.tableId, old.to.columnId)) =>
              \A d \in AllColumns(tables) : d.id # c.id
       /\ \E child \in Range(tables) :
            /\ child.id = r.to.tableId
            /\ Cardinality(ReferencingColumns(child, r.from)) = 1
            /\ \A i \in ReferencingColumns(child, r.from) :
                 \A parent \in Range(tables) :
                   \A k \in Range(parent.columns) :
                     (parent.id = r.from.tableId /\ k.id = r.from.columnId) =>
                       child.columns[i].name = fkNameFor(parent.name, k.name)
       /\ \A parent \in Range(tables) :
            parent.id = r.from.tableId => ReferencingColumns(parent, r.to) = {}

\* the last operation renamed an existing column
RenamedColumn ==
  /\ lastOp.op = "updateColumn"
  /\ ~lastOp.missing
  /\ lastOp.key = "name"

\* C24: after updateColumn(t, c, "name", v), c is named v, every column of
\* any table whose references is {t, c} is named fkNameFor(name of t, v),
\* and every other column has the name it had.
C24_RenamePropagatesToForeignKeys ==
  RenamedColumn =>
    LET t == CHOOSE x \in Range(pre.tables) : x.id = lastOp.tableId
    IN /\ Len(tables) = Len(pre.tables)
       /\ \A i \in 1..Len(tables) :
            /\ Len(tables[i].columns) = Len(pre.tables[i].columns)
            /\ \A j \in 1..Len(tables[i].columns) :
                 LET before == pre.tables[i].columns[j]
                     after == tables[i].columns[j]
                 IN /\ after.id = before.id
                    /\ after.name =
                         IF ReferencesTarget(before, lastOp.tableId, lastOp.columnId)
                         THEN fkNameFor(t.name, lastOp.name)
                         ELSE IF tables[i].id = lastOp.tableId /\ before.id = lastOp.columnId
                         THEN lastOp.name
                         ELSE before.name

\* a column referencing the renamed one has changed its name with it
C24_Witness ==
  /\ RenamedColumn
  /\ \E i \in 1..Len(tables) :
       \E j \in 1..Len(tables[i].columns) :
         /\ ReferencesTarget(pre.tables[i].columns[j], lastOp.tableId, lastOp.columnId)
         /\ tables[i].columns[j].name # pre.tables[i].columns[j].name
         /\ tables[i].id # lastOp.tableId

\* the last operation called recordHistory
Recorded == lastOp.op \in RecordingMutators \cup {"recordHistory"}

\* C25: an operation that records history leaves the graph it started from
\* on top of `past`, above the snapshots that were there (less the oldest
\* when `past` was full), and leaves `future` empty, so that redo() changes
\* nothing, also when the operation follows an undo.
C25_RecordClearsFuture ==
  Recorded =>
    /\ history.past =
         Append(IF Len(pre.history.past) = MAX_HISTORY
                THEN Tail(pre.history.past) ELSE pre.history.past,
                Graph(pre))
    /\ history.future = <<>>
    /\ redo(State) = State

\* a mutating operation after an undo: there was a redo branch, and the
\* operation changed the graph
C25_Witness ==
  /\ lastOp.op \in RecordingMutators
  /\ pre.history.future # <<>>
  /\ Graph(State) # Graph(pre)
  /\ history.future = <<>>

SelectionCleared == selected = <<>> /\ selectedRelationId = Null

\* C26: undo() with a non-empty `past` takes the top snapshot off `past`,
\* makes it the live graph, puts the graph it replaced on top of `future`
\* and clears the selection; redo() does the same from `future` to `past`;
\* undo() with an empty `past` and redo() with an empty `future` change
\* nothing.
C26_UndoRedoMoveSnapshots ==
  /\ (lastOp.op = "undo" /\ pre.history.past # <<>>) =>
       LET n == Len(pre.history.past)
       IN /\ Graph(State) = pre.history.past[n]
          /\ history.past = SubSeq(pre.history.past, 1, n - 1)
          /\ history.future = <<Graph(pre)>> \o pre.history.future
          /\ SelectionCleared
  /\ (lastOp.op = "redo" /\ pre.history.future # <<>>) =>
       /\ Graph(State) = pre.history.future[1]
       /\ history.future = Tail(pre.history.future)
       /\ history.past = Append(pre.history.past, Graph(pre))
       /\ SelectionCleared
  /\ (lastOp.op = "undo" /\ pre.history.past = <<>>) => State = pre
  /\ (lastOp.op = "redo" /\ pre.history.future = <<>>) => State = pre

\* an undo that changed the graph while a table was selected
C26_Witness ==
  /\ lastOp.op = "undo"
  /\ pre.history.past # <<>>
  /\ pre.selected # <<>>
  /\ Graph(State) # Graph(pre)
  /\ SelectionCleared

(***************************************************************************)
(* Vocabulary of the properties of the generated SQL.                      *)
(***************************************************************************)
\* the lines of a text: String.prototype.split("\n")
TextLines(text) ==
  LET breaks == {k \in 1..Len(text) : text[k] = "\n"}
      n == Cardinality(breaks) + 1
      BreakAt(i) ==
        IF i = 0 THEN 0
        ELSE IF i = n THEN Len(text) + 1
        ELSE CHOOSE k \in breaks : Cardinality({b \in breaks : b < k}) = i - 1
  IN [i \in 1..n |-> SubSeq(text, BreakAt(i - 1) + 1, BreakAt(i) - 1)]

IsCreateTable(line) == line # <<>> /\ line[1] = "CREATE TABLE "
IsForeignKey(line) ==
  /\ line # <<>>
  /\ line[1] = "ALTER TABLE "
  /\ \E k \in 1..Len(line) : line[k] = " FOREIGN KEY ("
IsCreateIndex(line) == line # <<>> /\ line[1] = "CREATE INDEX "

\* a name as the generators write it: bare, or in double quotes
Written(quoted, name) == IF quoted THEN <<"\"">> \o name \o <<"\"">> ELSE name

CreatesTable(line, quoted, name) ==
  \/ line = <<"CREATE TABLE ">> \o Written(quoted, name) \o <<" (">>
  \/ line = <<"CREATE TABLE ", "IF NOT EXISTS ">> \o Written(quoted, name) \o <<" (">>
\* ALTER TABLE child ... FOREIGN KEY (c) REFERENCES parent(pk)
AddsForeignKey(line, quoted, child, c, parent, pk) ==
  /\ StartsWith(line, <<"ALTER TABLE ">> \o Written(quoted, child)
                        \o <<" ADD CONSTRAINT ">>)
  /\ Includes(line, <<" FOREIGN KEY (">> \o Written(quoted, c) \o <<") REFERENCES ">>
                      \o Written(quoted, parent) \o <<"(">> \o Written(quoted, pk)
                      \o <<")">>)
\* CREATE INDEX ... ON table(c)
CreatesIndex(line, quoted, table, c) ==
  /\ IsCreateIndex(line)
  /\ Includes(line, <<" ON ">> \o Written(quoted, table) \o <<"(">>
                      \o Written(quoted, c) \o <<")">>)

\* C12: two calls of the same generator on the same tables and relations
\* return the same text.
C12_GenerateSQLDeterministic ==
  \A i \in 1..Len(calls), j \in 1..Len(calls) :
    calls[i].generator = calls[j].generator => calls[i].text = calls[j].text

\* C13: in the text of every call, every ALTER TABLE ... FOREIGN KEY line
\* comes after every CREATE TABLE line.
C13_ForeignKeysAfterTables ==
  \A k \in 1..Len(calls) :
    LET lines == TextLines(calls[k].text)
    IN \A i \in 1..Len(lines), j \in 1..Len(lines) :
         (IsCreateTable(lines[i]) /\ IsForeignKey(lines[j])) => i < j

\* both generators have compiled the graph with the cycle a -> b -> a
C13_Witness ==
  /\ tables = CyclicProject.tables
  /\ \E k \in 1..Len(calls), m \in 1..Len(calls) :
       /\ calls[k].generator # calls[m].generator
       /\ \A n \in {k, m} :
            Cardinality({i \in 1..Len(TextLines(calls[n].text)) :
                           IsForeignKey(TextLines(calls[n].text)[i])}) = 2

\* C14: for a parent table with key pk and a child table with a column c
\* that has isForeign = true and references pk, linked by a one-to-many
\* relation from the parent to the child, every call emits, in this order,
\* CREATE TABLE parent, CREATE TABLE child, ALTER TABLE child ... FOREIGN
\* KEY (c) REFERENCES parent(pk), and CREATE INDEX ... ON child(c).
C14_ParentChildScenario ==
  \A parent \in Range(tables), child \in Range(tables) :
    \A pk \in Range(parent.columns), c \in Range(child.columns) :
      (/\ parent.id # child.id
       /\ Truthy(pk.isPrimary)
       /\ Truthy(c.isForeign)
       /\ ReferencesTarget(c, parent.id, pk.id)
       /\ \E r \in Range(relations) :
            /\ r.cardinality = "one-to-many"
            /\ r.from.tableId = parent.id
            /\ r.to.tableId = child.id) =>
        \A k \in 1..Len(calls) :
          LET lines == TextLines(calls[k].text)
              at == 1..Len(lines)
          IN \E quoted \in BOOLEAN :
               \E i1 \in at, i2 \in at, i3 \in at, i4 \in at :
                 /\ i1 < i2 /\ i2 < i3 /\ i3 < i4
                 /\ CreatesTable(lines[i1], quoted, parent.name)
                 /\ CreatesTable(lines[i2], quoted, child.name)
                 /\ AddsForeignKey(lines[i3], quoted, child.name, c.name,
                                   parent.name, pk.name)
                 /\ CreatesIndex(lines[i4], quoted, child.name, c.name)

\* C15: for every pair of tables a, b that both have a primary key and
\* have a many-to-many relation between them, every call of the
\* column-driven generator emits exactly one CREATE TABLE for the junction
\* named after the two table names in code unit order, with a composite
\* primary key over a_id and b_id, and exactly two ON DELETE CASCADE
\* constraints on it: a_id to a's key and b_id to b's key.
C15_OneJunctionPerPair ==
  \A a \in Range(tables), b \in Range(tables) :
    (/\ a.id # b.id
     /\ primaryKeyOf(a) # Null
     /\ primaryKeyOf(b) # Null
     /\ ~CodeUnitLess(b.name, a.name)
     /\ \E r \in Range(relations) :
          /\ r.cardinality = "many-to-many"
          /\ {r.from.tableId, r.to.tableId} = {a.id, b.id}) =>
      \A k \in 1..Len(calls) :
        calls[k].generator = "sqlgenerator" =>
          LET lines == TextLines(calls[k].text)
              name == a.name \o <<"_">> \o b.name
              aId == a.name \o <<"_","i","d">>
              bId == b.name \o <<"_","i","d">>
              OnJunction(line) ==
                /\ IsForeignKey(line)
                /\ StartsWith(line, <<"ALTER TABLE ">> \o name \o <<" ADD CONSTRAINT ">>)
              Cascades(line, col, table) ==
                /\ AddsForeignKey(line, FALSE, name, col, table.name,
                                  primaryKeyOf(table)[1].name)
                /\ Includes(line, <<" ON DELETE CASCADE">>)
          IN /\ Cardinality({i \in 1..Len(lines) :
                               CreatesTable(lines[i], FALSE, name)}) = 1
             /\ \E i \in 1..Len(lines) :
                  /\ CreatesTable(lines[i], FALSE, name)
                  /\ lines[i + 3] \in
                       {<<"  PRIMARY KEY (">> \o aId \o <<", ">> \o bId \o <<")">>,
                        <<"  PRIMARY KEY (">> \o bId \o <<", ">> \o aId \o <<")">>}
             /\ Cardinality({i \in 1..Len(lines) : OnJunction(lines[i])}) = 2
             /\ \E i \in 1..Len(lines) : Cascades(lines[i], aId, a)
             /\ \E i \in 1..Len(lines) : Cascades(lines[i], bId, b)

\* the line of the text on which the n-th table's j-th column is defined:
\* the tables come first among the CREATE TABLE statements, in order, one
\* column per line
ColumnLine(lines, n, j) ==
  LET creates == {i \in 1..Len(lines) : IsCreateTable(lines[i])}
      nth == CHOOSE i \in creates : Cardinality({m \in creates : m < i}) = n - 1
  IN lines[nth + j]

HasNotNull(line) == \E k \in 1..Len(line) : line[k] = " NOT NULL"

\* C28: in the text of every call, a column's definition carries NOT NULL
\* exactly when the column is a primary key or its isNullable is false.
C28_NotNullColumns ==
  \A k \in 1..Len(calls) :
    LET lines == TextLines(calls[k].text)
        quoted == calls[k].generator = "sqlGenerator"
    IN \A n \in 1..Len(tables) :
         \A j \in 1..Len(tables[n].columns) :
           LET col == tables[n].columns[j]
               line == ColumnLine(lines, n, j)
           IN /\ StartsWith(line, <<"  ">> \o Written(quoted, col.name) \o <<" ">>)
              /\ HasNotNull(line) <=> (Truthy(col.isPrimary) \/ col.isNullable = JsFalse)

\* a comment line that names the column `col` of `table`
IsCommentOn(line, table, col) ==
  /\ line # <<>>
  /\ line[1] \in {"-- WARNING: FK ", "-- FK: ", "-- TABLE: ", "-- ENUM for ",
                  "-- MANY-TO-MANY JOIN TABLE: ", "-- Generated at "}
  /\ Includes(line, table.name \o <<".">> \o col.name)

\* a column marked foreign whose references names a table or a column
\* that does not exist
Dangling(col) ==
  /\ Truthy(col.isForeign)
  /\ col.references # Null
  /\ ~EndpointExists(tables, col.references[1])

Resolvable(col) ==
  /\ Truthy(col.isForeign)
  /\ col.references # Null
  /\ EndpointExists(tables, col.references[1])

\* C29: in the text of every call, a dangling foreign-key column has no
\* constraint and has a warning comment naming it, every table has its
\* CREATE TABLE, and every resolvable foreign-key column has its
\* constraint.
C29_DanglingForeignKeySkipped ==
  \A k \in 1..Len(calls) :
    LET lines == TextLines(calls[k].text)
        quoted == calls[k].generator = "sqlGenerator"
    IN \A n \in 1..Len(tables) :
         /\ Cardinality({i \in 1..Len(lines) : IsCreateTable(lines[i])}) >= Len(tables)
         /\ CreatesTable(ColumnLine(lines, n, 0), quoted, tables[n].name)
         /\ \A col \in Range(tables[n].columns) :
              /\ Dangling(col) =>
                   /\ \A i \in 1..Len(lines) :
                        ~(/\ IsForeignKey(lines[i])
                          /\ StartsWith(lines[i], <<"ALTER TABLE ">>
                               \o Written(quoted, tables[n].name) \o <<" ADD CONSTRAINT ">>)
                          /\ Includes(lines[i], <<" FOREIGN KEY (">>
                               \o Written(quoted, col.name) \o <<") REFERENCES ">>))
                   /\ \E i \in 1..Len(lines) : IsCommentOn(lines[i], tables[n], col)
              /\ Resolvable(col) =>
                   \A parent \in Range(tables) :
                     \A pk \in Range(parent.columns) :
                       ReferencesTarget(col, parent.id, pk.id) =>
                         \E i \in 1..Len(lines) :
                           AddsForeignKey(lines[i], quoted, tables[n].name, col.name,
                                          parent.name, pk.name)

\* the clauses the rules of a relation stand for
RuleClauses(r) ==
  (IF r.deleteRule = "cascade" THEN <<" ON DELETE CASCADE">>
   ELSE IF r.deleteRule = "set-null" THEN <<" ON DELETE SET NULL">>
   ELSE <<>>)
  \o (IF r.updateRule = "cascade" THEN <<" ON UPDATE CASCADE">> ELSE <<>>)

\* the relations whose two endpoints are the column `col` of `table` and
\* the column `pk` of `parent`, in either direction
RelationsBetween(table, col, parent, pk) ==
  {r \in Range(relations) :
     \/ (r.from = Endpoint(parent.id, pk.id) /\ r.to = Endpoint(table.id, col.id))
     \/ (r.from = Endpoint(table.id, col.id) /\ r.to = Endpoint(parent.id, pk.id))}

\* the constraint lines a foreign-key column may have: REFERENCES
\* parent(pk) followed by the clauses of a relation between the two columns,
\* or by no clause when there is no such relation
Allowed(table, col, parent, pk) ==
  LET matching == RelationsBetween(table, col, parent, pk)
      stem == <<"ALTER TABLE ">> \o table.name \o <<" ADD CONSTRAINT ">>
                \o <<"f","k","_">> \o table.name \o <<"_">> \o col.name
                \o <<" FOREIGN KEY (">> \o col.name \o <<") REFERENCES ">>
                \o parent.name \o <<"(">> \o pk.name \o <<")">>
  IN IF matching = {} THEN {stem \o <<";">>}
     ELSE {stem \o RuleClauses(r) \o <<";">> : r \in matching}

\* the foreign-key columns of the graph with the column each one references
ForeignKeyColumns ==
  {x \in [table : Range(tables), col : AllColumns(tables),
          parent : Range(tables), pk : AllColumns(tables)] :
     /\ x.col \in Range(x.table.columns)
     /\ x.pk \in Range(x.parent.columns)
     /\ Truthy(x.col.isForeign)
     /\ ReferencesTarget(x.col, x.parent.id, x.pk.id)}

HasRuleClause(line) ==
  \E k \in 1..Len(line) :
    line[k] \in {" ON DELETE CASCADE", " ON DELETE SET NULL", " ON UPDATE CASCADE"}

C31_IndexPerForeignKeyColumn ==
  \A k \in 1..Len(calls) :
    LET lines == TextLines(calls[k].text)
        quoted == calls[k].generator = "sqlGenerator"
    IN /\ \A n \in 1..Len(tables) :
            \A col \in Range(tables[n].columns) :
              Resolvable(col) =>
                Cardinality({i \in 1..Len(lines) :
                               CreatesIndex(lines[i], quoted, tables[n].name, col.name)}) = 1
       /\ \A i \in 1..Len(lines), j \in 1..Len(lines) :
            (IsCreateIndex(lines[i]) /\ IsForeignKey(lines[j])) => j < i

\* the junction table's name for the tables a and b, as the generator of the
\* call writes it
JunctionName(generator, a, b) ==
  IF generator = "sqlGenerator" THEN Written(TRUE, junctionNamePg(a, b))
  ELSE joinNameOf(a, b)

\* a many-to-many relation between existing tables of which one has no
\* primary key
Unkeyed(r, a, b) ==
  /\ r.cardinality = "many-to-many"
  /\ r.from.tableId = a.id
  /\ r.to.tableId = b.id
  /\ (primaryKeyOf(a) = Null \/ primaryKeyOf(b) = Null)

IsWarning(line) == line # <<>> /\ line[1] = "-- WARNING: FK "

NoJunction(lines, name) ==
  \A i \in 1..Len(lines) :
    /\ ~(IsCreateTable(lines[i]) /\ Includes(lines[i], name \o <<" (">>))
    /\ ~(IsForeignKey(lines[i])
         /\ StartsWith(lines[i], <<"ALTER TABLE ">> \o name \o <<" ADD CONSTRAINT ">>))

\* C32: for a many-to-many relation one of whose tables has no primary key,
\* the text of every call has no CREATE TABLE for the junction and no
\* constraint on it, and has a warning comment that names the two tables.
C32_JunctionSkippedWithWarning ==
  \A r \in Range(relations), a \in Range(tables), b \in Range(tables) :
    Unkeyed(r, a, b) =>
      \A k \in 1..Len(calls) :
        LET lines == TextLines(calls[k].text)
        IN /\ NoJunction(lines, JunctionName(calls[k].generator, a, b))
           /\ \E i \in 1..Len(lines) :
                /\ IsWarning(lines[i])
                /\ Includes(lines[i], a.name)
                /\ Includes(lines[i], b.name)

\* what a field of the parsed file reads as, with `otherwise` for a missing one
FieldOr(json, field, otherwise) ==
  IF field \in DOMAIN json THEN json[field] ELSE otherwise

\* C33: after importProject the tables, the relations and the viewport are
\* the file's, in the file's order, with an empty list for a missing
\* `tables` or `relations` field and {x: 0, y: 0, scale: 1} for a missing
\* `viewport`; no link is pending and nothing is selected.
C33_ImportReplacesGraph ==
  lastOp.op = "importProject" =>
    LET json == lastOp.json[1]
    IN /\ tables = FieldOr(json, "tables", <<>>)
       /\ relations = FieldOr(json, "relations", <<>>)
       /\ viewport = FieldOr(json, "viewport", [x |-> 0, y |-> 0, scale |-> 100])
       /\ activeLink = Null
       /\ selected = <<>>
       /\ selectedRelationId = Null

\* a file with neither tables nor viewport is loaded over a panned canvas
\* with tables, a pending link and a selection
C33_Witness ==
  /\ lastOp.op = "importProject"
  /\ DOMAIN lastOp.json[1] = {"relations"}
  /\ relations # <<>>
  /\ pre.tables # <<>>
  /\ pre.viewport # viewport
  /\ pre.activeLink # Null
  /\ pre.selected # <<>>
  /\ pre.selectedRelationId # Null

UniqueIds(items) ==
  \A i \in 1..Len(items), j \in 1..Len(items) : items[i].id = items[j].id => i = j

\* `merged` is `existing`, unchanged and in order, followed by items of
\* `incoming` whose id is the id of no existing item
MergedFrom(merged, existing, incoming) ==
  /\ Len(merged) >= Len(existing)
  /\ SubSeq(merged, 1, Len(existing)) = existing
  /\ \A i \in (Len(existing) + 1)..Len(merged) :
       /\ merged[i] \in Range(incoming)
       /\ \A e \in Range(existing) : e.id # merged[i].id
  /\ (UniqueIds(existing) /\ UniqueIds(incoming)) => UniqueIds(merged)

ForeignKeysOf(s, r) ==
  {c \in UNION {Range(t.columns) : t \in {u \in Range(s.tables) : u.id = r.to.tableId}} :
     ReferencesTarget(c, r.from.tableId, r.from.columnId)}

\* C35: updateRelationCardinality on relation r leaves alone the foreign-key
\* columns of every other relation whose child is a third table: such a
\* column is still on its table, unchanged, after the call.
C35_OtherForeignKeysKept ==
  (lastOp.op = "updateRelationCardinality" /\ ~lastOp.missing) =>
    \A r \in Range(pre.relations), other \in Range(pre.relations) :
      (/\ r.id = lastOp.relationId
       /\ other.id # r.id
       /\ other.to.tableId \notin {r.from.tableId, r.to.tableId}) =>
        \A c \in ForeignKeysOf(pre, other) : c \in ForeignKeysOf(State, other)

UniqueColumnNames(tbl) ==
  \A i \in 1..Len(tbl.columns), j \in 1..Len(tbl.columns) :
    tbl.columns[i].name = tbl.columns[j].name => i = j

\* C36: in every state the store operations reach, no table has two columns
\* with the same name.
C36_ColumnNamesUnique ==
  lastOp.op \notin {"importProject", "handleSafeImport", "handleTidyUp"} =>
    \A t \in Range(tables) : UniqueColumnNames(t)

\* C37: whenever a link is pending, the table it starts at is in `tables`
\* and the column it starts at is a column of that table.
C37_PendingLinkExists ==
  activeLink # Null =>
    \E t \in Range(tables) :
      /\ t.id = activeLink[1].tableId
      /\ \E c \in Range(t.columns) : c.id = activeLink[1].columnId

\* the last operation ended as a no-op on the graph: a commitRelation with
\* no pending link, on the pending endpoint itself or without any primary
\* key, or a mutator called with a missing id
RejectedCall ==
  \/ lastOp.op = "commitRelation" /\ pre.activeLink = Null
  \/ CommittedSame
  \/ NoPrimaryKeyCommit
  \/ lastOp.op \in Mutators /\ lastOp.missing

\* C38: an operation that ends as a no-op on the graph leaves `past` and
\* `future` as they were, so that a redo available before the call is
\* available after it.
C38_RejectedCallKeepsHistory ==
  RejectedCall =>
    /\ history = pre.history
    /\ pre.history.future # <<>> => Graph(redo(State)) = Graph(redo(pre))

\* the store after 0, 1, ... n undo() calls, and after 0, 1, ... n redo() calls
RECURSIVE UndoCalls(_, _)
UndoCalls(path, n) ==
  IF n = 0 THEN path
  ELSE UndoCalls(Append(path, CHOOSE s \in {undo(path[Len(path)])} : TRUE), n - 1)
RECURSIVE RedoCalls(_, _)
RedoCalls(path, n) ==
  IF n = 0 THEN path
  ELSE RedoCalls(Append(path, CHOOSE s \in {redo(path[Len(path)])} : TRUE), n - 1)
Last(path) == path[Len(path)]

TimelineOf(s) == [tables |-> s.tables, relations |-> s.relations,
                 past |-> s.history.past, future |-> s.history.future]
Snapshots(s) == Len(s.history.past) + Len(s.history.future)

\* C39: n undo() calls followed by n redo() calls give back the tables, the
\* relations, `past` and `future` the store had, for every n up to the
\* length of `past`: the redo() after k undo() calls gives the store after
\* k - 1 of them (so the n redo() calls walk back through the stores the n
\* undo() calls went through), and undoing all of `past` and redoing it all
\* ends on the timeline it started from; and undo() and redo() leave the
\* number of snapshots that `past` and `future` hold together as it was.
C39_UndoRedoRoundTrip ==
  /\ \E undone \in {UndoCalls(<<State>>, Len(history.past))} :
       /\ \A k \in 2..Len(undone) :
            /\ Snapshots(undone[k]) = Snapshots(State)
            /\ TimelineOf(redo(undone[k])) = TimelineOf(undone[k - 1])
            /\ k > 2 => redo(undone[k]) = undone[k - 1]
       /\ \E redone \in {RedoCalls(<<Last(undone)>>, Len(history.past))} :
            /\ TimelineOf(Last(redone)) = TimelineOf(State)
            /\ \A k \in 1..Len(redone) : Snapshots(redone[k]) = Snapshots(State)
  /\ Snapshots(undo(State)) = Snapshots(State)
  /\ Snapshots(redo(State)) = Snapshots(State)
  /\ lastOp.op \in {"undo", "redo"} => Snapshots(State) = Snapshots(pre)

\* an undo of a full `past` has left snapshots on both stacks, and undoing
\* the rest leads down to another graph, with every snapshot on `future`
C39_Witness ==
  /\ lastOp.op = "undo"
  /\ Len(pre.history.past) = MAX_HISTORY
  /\ Len(history.past) = MAX_HISTORY - 1
  /\ Len(history.future) = 1
  /\ LET undone == Last(UndoCalls(<<State>>, Len(history.past)))
     IN /\ undone.tables # tables
        /\ undone.history.past = <<>>
        /\ Len(undone.history.future) = MAX_HISTORY

(***************************************************************************)
(* The store at the level of object identity.  Here `tables`, `relations`  *)
(* and the snapshots of `history` are trees of heap objects: a node is an  *)
(* array or an object, `id` is its identity, `kids` are the containers it  *)
(* holds (tables array > table > columns array > column; relations array > *)
(* relation > its two endpoint objects) and `val` stands for its scalar    *)
(* fields.  Two nodes with one id are one object reached twice.  What a    *)
(* handler decides from scalar fields (which table has the id, which       *)
(* columns a filter keeps) is a choice over the outcomes; what it          *)
(* allocates, copies, shares and writes in place is as in its code.  A     *)
(* column's `references` object is part of its column node.                *)
(***************************************************************************)
MemSteps == 5
MemHistory == 2
MemTables == 2
MemColumns == 2
MemRelations == 1

\* identities: a canonical number, or the identity an allocation site derives
Address(n) == [n |-> n, site |-> <<>>]

Derived(id, site) == [n |-> id.n, site |-> Append(id.site, site)]

\* a sequence given by a rule, as the tuple of its elements
Array(elements) == elements \o <<>>

\* an object or array literal
New(site, kids) ==
  [id |-> [n |-> 0, site |-> <<site>>], val |-> FALSE, kids |-> Array(kids)]

\* a new container made from node: {...node}, node.map(..), node.filter(..)
Copy(node, site, kids) ==
  [id |-> Derived(node.id, site), val |-> node.val, kids |-> Array(kids)]

RECURSIVE Ids(_)
Ids(node) == {node.id} \cup UNION {Ids(node.kids[i]) : i \in 1..Len(node.kids)}

\* the value of an object graph, identities forgotten
RECURSIVE Value(_)
Value(node) ==
  [val |-> node.val, kids |-> Array([i \in 1..Len(node.kids) |-> Value(node.kids[i])])]

\* a deep copy that kept the reference
structuredCloneShared(v) == v

RECURSIVE structuredClone(_)
structuredClone(v) ==
  Copy(v, "structuredClone", [i \in 1..Len(v.kids) |-> structuredClone(v.kids[i])])

\* an assignment to a field or element of the object `id`, seen through
\* every reference to it
RECURSIVE Assign(_, _, _, _)
Assign(node, id, val, kids) ==
  IF node.id = id THEN [id |-> id, val |-> val, kids |-> Array(kids)]
  ELSE [node EXCEPT !.kids =
          Array([i \in 1..Len(node.kids) |-> Assign(node.kids[i], id, val, kids)])]

AssignSnapshot(snap, id, val, kids) ==
  [tables |-> Assign(snap.tables, id, val, kids),
   relations |-> Assign(snap.relations, id, val, kids)]

AssignStore(m, id, val, kids) ==
  [tables |-> Assign(m.tables, id, val, kids),
   relations |-> Assign(m.relations, id, val, kids),
   history |->
     [past |-> Array([i \in 1..Len(m.history.past) |->
                  AssignSnapshot(m.history.past[i], id, val, kids)]),
      future |-> Array([i \in 1..Len(m.history.future) |->
                  AssignSnapshot(m.history.future[i], id, val, kids)])]]

Memory == [tables |-> tables, relations |-> relations, history |-> history]

SnapshotIds(snap) == Ids(snap.tables) \cup Ids(snap.relations)

StoredIds(m) ==
  UNION ({SnapshotIds(m.history.past[i]) : i \in 1..Len(m.history.past)}
         \cup {SnapshotIds(m.history.future[i]) : i \in 1..Len(m.history.future)})

SnapshotValue(snap) == [tables |-> Value(snap.tables), relations |-> Value(snap.relations)]

Values(m) ==
  [live |-> SnapshotValue(m),
   past |-> Array([i \in 1..Len(m.history.past) |-> SnapshotValue(m.history.past[i])]),
   future |-> Array([i \in 1..Len(m.history.future) |->
                       SnapshotValue(m.history.future[i])])]

\* an identity is renumbered as the place where a walk from the store first
\* meets it
RECURSIVE Concat(_)
Concat(seqs) == IF seqs = <<>> THEN <<>> ELSE Head(seqs) \o Concat(Tail(seqs))

RECURSIVE Preorder(_)
Preorder(node) ==
  <<node.id>> \o Concat([i \in 1..Len(node.kids) |-> Preorder(node.kids[i])])

SnapshotOrder(snap) == Preorder(snap.tables) \o Preorder(snap.relations)

RECURSIVE FirstAt(_, _, _)
FirstAt(order, id, i) == IF order[i] = id THEN i ELSE FirstAt(order, id, i + 1)

RECURSIVE Renumber(_, _)
Renumber(node, order) ==
  [id |-> Address(FirstAt(order, node.id, 1)), val |-> node.val,
   kids |-> Array([i \in 1..Len(node.kids) |-> Renumber(node.kids[i], order)])]

RenumberSnapshot(snap, order) ==
  [tables |-> Renumber(snap.tables, order), relations |-> Renumber(snap.relations, order)]

Renumbered(m, order) ==
  [tables |-> Renumber(m.tables, order),
   relations |-> Renumber(m.relations, order),
   history |->
     [past |-> Array([i \in 1..Len(m.history.past) |->
                        RenumberSnapshot(m.history.past[i], order)]),
      future |-> Array([i \in 1..Len(m.history.future) |->
                          RenumberSnapshot(m.history.future[i], order)])]]

WalkOrder(m) ==
  SnapshotOrder(m)
    \o Concat([i \in 1..Len(m.history.past) |-> SnapshotOrder(m.history.past[i])])
    \o Concat([i \in 1..Len(m.history.future) |-> SnapshotOrder(m.history.future[i])])

Canonical(m2) ==
  CHOOSE c \in {Renumbered(m, order) : <<m, order>> \in {<<m2, WalkOrder(m2)>>}} : TRUE

Columns(table) == table.kids[1]

ColumnsOf(arr) ==
  UNION {{Columns(arr.kids[j]).kids[k].id : k \in 1..Len(Columns(arr.kids[j]).kids)} :
           j \in 1..Len(arr.kids)}

Elements(arr) == {arr.kids[i].id : i \in 1..Len(arr.kids)}

Without(seq, i) ==
  Array([k \in 1..(Len(seq) - 1) |-> IF k < i THEN seq[k] ELSE seq[k + 1]])

Keep(seq, dropped) == SelectSeq(seq, LAMBDA node : node.id \notin dropped)

\* arr.map((t) => (t is the j-th ? node : t)); no element is the j-th when j = 0
MapAt(arr, site, j, node) ==
  Copy(arr, site, [k \in 1..Len(arr.kids) |-> IF k = j THEN node ELSE arr.kids[k]])

recordHistoryOf(m) ==
  LET snapshot == [tables |-> structuredClone(m.tables),
                   relations |-> structuredClone(m.relations)]
      pushed == Append(m.history.past, snapshot)
      past == IF Len(pushed) > MAX_HISTORY THEN Tail(pushed) ELSE pushed
  IN [m EXCEPT !.history = [past |-> past, future |-> <<>>]]

undoOf(m) ==
  IF Len(m.history.past) = 0 THEN m
  ELSE LET previous == m.history.past[Len(m.history.past)]
           newPast == SubSeq(m.history.past, 1, Len(m.history.past) - 1)
           pushed == <<[tables |-> structuredClone(m.tables),
                        relations |-> structuredClone(m.relations)]>> \o m.history.future
           future == IF Len(pushed) > MAX_HISTORY THEN SubSeq(pushed, 1, MAX_HISTORY) ELSE pushed
       IN [tables |-> previous.tables, relations |-> previous.relations,
           history |-> [past |-> newPast, future |-> future]]

redoOf(m) ==
  IF Len(m.history.future) = 0 THEN m
  ELSE LET next == m.history.future[1]
           newFuture == Tail(m.history.future)
           pushed == Append(m.history.past,
                            [tables |-> structuredClone(m.tables),
                             relations |-> structuredClone(m.relations)])
           past == IF Len(pushed) > MAX_HISTORY THEN Tail(pushed) ELSE pushed
       IN [tables |-> next.tables, relations |-> next.relations,
           history |-> [past |-> past, future |-> newFuture]]

\* the store after a handler: m2 is the handler's result on Memory; `pre`
\* tells whether the handler found a restored snapshot as the live graph
MemApply(op, m2) ==
  /\ steps < MemSteps
  /\ \E c \in {Canonical(m2)} :
       /\ tables' = c.tables
       /\ relations' = c.relations
       /\ history' = c.history
  /\ lastOp' = op
  /\ pre' = [restored |-> lastOp.op \in {"undo", "redo"} /\ ~lastOp.missing]
  /\ steps' = steps + 1
  /\ UNCHANGED <<activeLink, selected, selectedRelationId, uuid, viewport,
                  pending, clock, calls>>

\* a handler that begins with recordHistory()
Recording == Len(history.past) < MemHistory

MemAddTable ==
  /\ Recording
  /\ Len(tables.kids) < MemTables
  /\ LET m == recordHistoryOf(Memory)
         table == New("table", <<New("columns", <<>>)>>)
     IN MemApply(Op("addTable"),
                 [m EXCEPT !.tables = Copy(m.tables, "addTable", Append(m.tables.kids, table))])

MemRenameTable ==
  /\ Recording
  /\ \E j \in 0..Len(tables.kids) :
       LET m == recordHistoryOf(Memory)
           t == m.tables.kids[j]
       IN MemApply(Op("renameTable"),
                   [m EXCEPT !.tables = MapAt(m.tables, "renameTable", j,
                                              Copy(t, "renameTable", t.kids))])

MemAddColumn ==
  /\ Recording
  /\ \E j \in 0..Len(tables.kids) :
       /\ j > 0 => Len(Columns(tables.kids[j]).kids) < MemColumns
       /\ LET m == recordHistoryOf(Memory)
              t == m.tables.kids[j]
              columns == Copy(Columns(t), "addColumn",
                              Append(Columns(t).kids, New("column", <<>>)))
          IN MemApply(Op("addColumn"),
                      [m EXCEPT !.tables = MapAt(m.tables, "addColumn", j,
                                                 Copy(t, "addColumn", <<columns>>))])

\* t.columns.map((c) => (c is the k-th ? {...c, ..} : c)) inside {...t, columns}
WithColumnCopied(t, site, k) ==
  Copy(t, site,
       <<MapAt(Columns(t), site, k, Copy(Columns(t).kids[k], site, <<>>))>>)

MemUpdateColumn ==
  /\ Recording
  /\ \E j \in 0..Len(tables.kids), rename \in BOOLEAN, referencing \in SUBSET ColumnsOf(tables) :
       \E k \in 0..(IF j = 0 THEN 0 ELSE Len(Columns(tables.kids[j]).kids)) :
         /\ ~rename => referencing = {}
         /\ LET m == recordHistoryOf(Memory)
                mapped == MapAt(m.tables, "updateColumn", j,
                                WithColumnCopied(m.tables.kids[j], "updateColumn", k))
                updatedTables ==
                  Copy(mapped, "updatedTables",
                       [i \in 1..Len(mapped.kids) |->
                          Copy(mapped.kids[i], "updatedTables",
                               <<Copy(Columns(mapped.kids[i]), "newCols",
                                      [c \in 1..Len(Columns(mapped.kids[i]).kids) |->
                                         LET col == Columns(mapped.kids[i]).kids[c]
                                         IN IF col.id \in referencing
                                            THEN Copy(col, "newFkName", col.kids)
                                            ELSE col])>>)])
            IN MemApply([Op("updateColumn") EXCEPT !.key = IF rename THEN "name" ELSE "type"],
                        [m EXCEPT !.tables = IF rename THEN updatedTables ELSE mapped])

MemRemoveColumn ==
  /\ Recording
  /\ \E j \in 0..Len(tables.kids) :
       \E k \in 0..(IF j = 0 THEN 0 ELSE Len(Columns(tables.kids[j]).kids)) :
         LET m == recordHistoryOf(Memory)
             t == m.tables.kids[j]
             kept == IF k = 0 THEN Columns(t).kids ELSE Without(Columns(t).kids, k)
         IN MemApply(Op("removeColumn"),
                     [m EXCEPT !.tables =
                        MapAt(m.tables, "removeColumn", j,
                              Copy(t, "removeColumn",
                                   <<Copy(Columns(t), "filter", kept)>>))])

MemToggleColumnFlag ==
  /\ Recording
  /\ \E j \in 0..Len(tables.kids) :
       \E k \in 0..(IF j = 0 THEN 0 ELSE Len(Columns(tables.kids[j]).kids)) :
         LET m == recordHistoryOf(Memory)
         IN MemApply(Op("toggleColumnFlag"),
                     [m EXCEPT !.tables =
                        MapAt(m.tables, "toggleColumnFlag", j,
                              WithColumnCopied(m.tables.kids[j], "toggleColumnFlag", k))])

MemUpdateTablePosition ==
  \E j \in 0..Len(tables.kids) :
    LET t == tables.kids[j]
    IN MemApply(Op("updateTablePosition"),
                [Memory EXCEPT !.tables = MapAt(tables, "updateTablePosition", j,
                                                Copy(t, "updateTablePosition", t.kids))])

\* child = 0: the handler returned before it built anything; fk says whether
\* the child table gets a new column
MemCommitRelation ==
  /\ Recording
  /\ \E child \in 0..Len(tables.kids), fk \in BOOLEAN :
       /\ child = 0 => ~fk
       /\ child > 0 => Len(relations.kids) < MemRelations
       /\ fk => Len(Columns(tables.kids[child]).kids) < MemColumns
       /\ LET m == recordHistoryOf(Memory)
              t == m.tables.kids[child]
              updatedTables ==
                MapAt(m.tables, "updatedTables", IF fk THEN child ELSE 0,
                      Copy(t, "commitRelation",
                           <<Copy(Columns(t), "columns",
                                  Append(Columns(t).kids, New("column", <<>>)))>>))
              newRelation == New("newRelation", <<New("A", <<>>), New("B", <<>>)>>)
          IN MemApply([Op("commitRelation") EXCEPT !.missing = (child = 0)],
                      IF child = 0 THEN m
                      ELSE [m EXCEPT !.tables = updatedTables,
                                     !.relations = Copy(m.relations, "relations",
                                                        Append(m.relations.kids, newRelation))])

MemRemoveTable ==
  /\ Recording
  /\ \E j \in 0..Len(tables.kids), gone \in SUBSET Elements(relations) :
       LET m == recordHistoryOf(Memory)
       IN MemApply(Op("removeTable"),
                   [m EXCEPT !.tables = Copy(m.tables, "filter",
                                             IF j = 0 THEN m.tables.kids
                                             ELSE Without(m.tables.kids, j)),
                             !.relations = Copy(m.relations, "filter",
                                                Keep(m.relations.kids, gone))])

MemDeleteSelected ==
  /\ Recording
  /\ \E toDelete \in SUBSET Elements(tables), gone \in SUBSET Elements(relations) :
       LET m == recordHistoryOf(Memory)
       IN MemApply(Op("deleteSelected"),
                   [m EXCEPT !.tables = Copy(m.tables, "filter",
                                             Keep(m.tables.kids, toDelete)),
                             !.relations = Copy(m.relations, "filter",
                                                Keep(m.relations.kids, gone))])

\* j = 0: no table has the id
MemDeleteTable ==
  /\ Recording
  /\ \E j \in 0..Len(tables.kids), gone \in SUBSET Elements(relations),
        fks \in SUBSET ColumnsOf(tables) :
       /\ j = 0 => (gone = {} /\ fks = {})
       /\ LET m == recordHistoryOf(Memory)
              rest == Without(m.tables.kids, j)
              cleanedTables ==
                Copy(m.tables, "cleanedTables",
                     [i \in 1..Len(rest) |->
                        LET cols == Columns(rest[i])
                        IN Copy(rest[i], "cleanedTables",
                                <<IF Elements(cols) \cap fks = {} THEN cols
                                  ELSE Copy(cols, "filter", Keep(cols.kids, fks))>>)])
          IN MemApply([Op("deleteTable") EXCEPT !.missing = (j = 0)],
                      IF j = 0 THEN m
                      ELSE [m EXCEPT !.tables = cleanedTables,
                                     !.relations = Copy(m.relations, "filter",
                                                        Keep(m.relations.kids, gone))])

\* i = 0: no relation has the id; child = 0: an endpoint table is missing;
\* fks: the child's columns the name filter drops (none: the column stays)
MemDeleteRelation ==
  /\ Recording
  /\ \E i \in 0..Len(relations.kids), child \in 0..Len(tables.kids),
        fks \in SUBSET ColumnsOf(tables) :
       /\ (i = 0 \/ child = 0) => fks = {}
       /\ i = 0 => child = 0
       /\ child > 0 => fks \subseteq Elements(Columns(tables.kids[child]))
       /\ LET m == recordHistoryOf(Memory)
              t == m.tables.kids[child]
              updatedTables ==
                MapAt(m.tables, "updatedTables", IF fks = {} THEN 0 ELSE child,
                      Copy(t, "deleteRelation",
                           <<Copy(Columns(t), "filter", Keep(Columns(t).kids, fks))>>))
              remaining == Copy(m.relations, "filter", Without(m.relations.kids, i))
          IN MemApply([Op("deleteRelation") EXCEPT !.missing = (i = 0)],
                      IF i = 0 THEN m
                      ELSE IF child = 0 THEN [m EXCEPT !.relations = remaining]
                      ELSE [m EXCEPT !.tables = updatedTables, !.relations = remaining])

\* tables = tables.map((t) => ({...t, columns: t.columns.filter(..)}))
removeFKReferencingOf(tbls, dropped) ==
  Copy(tbls, "removeFKReferencing",
       [k \in 1..Len(tbls.kids) |->
          Copy(tbls.kids[k], "removeFKReferencing",
               <<Copy(Columns(tbls.kids[k]), "filter",
                      Keep(Columns(tbls.kids[k]).kids, dropped))>>)])

\* the locals of updateRelationCardinality together with the store they were
\* read from: an assignment reaches whatever holds the assigned object
AssignFrame(f, id, val, kids) ==
  [store |-> AssignStore(f.store, id, val, kids),
   relations |-> Assign(f.relations, id, val, kids),
   relation |-> Assign(f.relation, id, val, kids),
   tables |-> Assign(f.tables, id, val, kids)]

\* targetTable.columns = [...targetTable.columns, fkCol];
\* tables = tables.map((t) => (t.id === targetTable.id ? targetTable : t))
ensureFKOnOf(f, target) ==
  LET targetTable == f.tables.kids[target]
      columns == New("columns", Append(Columns(targetTable).kids, New("fkCol", <<>>)))
      g == AssignFrame(f, targetTable.id, targetTable.val, <<columns>>)
  IN [g EXCEPT !.tables = Copy(g.tables, "ensureFKOn", g.tables.kids)]

\* relIndex = 0: no relation has the id; fks: the columns the two clean-up
\* passes drop; target = 0: ensureFKOn is not called or returns early
updateRelationCardinalityOf(m, relIndex, reverse, fks, target) ==
  IF relIndex = 0 THEN m
  ELSE
    LET mapped == Copy(m.relations, "relations",
                       [k \in 1..Len(m.relations.kids) |->
                          Copy(m.relations.kids[k], "relations", m.relations.kids[k].kids)])
        copied == Copy(mapped.kids[relIndex], "relation", mapped.kids[relIndex].kids)
        f0 == [store |-> m, relations |-> mapped, relation |-> copied, tables |-> m.tables]
        \* relation.from, relation.to, relation.cardinality
        f1 == AssignFrame(f0, copied.id, ~copied.val,
                          IF reverse THEN <<copied.kids[2], copied.kids[1]>> ELSE copied.kids)
        \* relations[relIndex] = relation
        f2 == AssignFrame(f1, mapped.id, f1.relations.val,
                          [f1.relations.kids EXCEPT ![relIndex] = f1.relation])
        shallow == Copy(f2.store.tables, "tables",
                        [k \in 1..Len(f2.store.tables.kids) |->
                           LET t == f2.store.tables.kids[k]
                           IN Copy(t, "tables", <<Copy(Columns(t), "slice", Columns(t).kids)>>)])
        f3 == [f2 EXCEPT !.tables =
                 removeFKReferencingOf(removeFKReferencingOf(shallow, fks), {})]
        f4 == IF target = 0 THEN f3 ELSE ensureFKOnOf(f3, target)
    IN [tables |-> f4.tables, relations |-> f4.relations, history |-> f4.store.history]

MemUpdateRelationCardinality ==
  /\ Recording
  /\ \E relIndex \in 0..Len(relations.kids), reverse \in BOOLEAN,
        fks \in SUBSET ColumnsOf(tables), target \in 0..Len(tables.kids) :
       /\ relIndex = 0 => (~reverse /\ fks = {} /\ target = 0)
       /\ target > 0 =>
            Len(Keep(Columns(tables.kids[target]).kids, fks)) < MemColumns
       /\ MemApply([Op("updateRelationCardinality") EXCEPT
                      !.relationId = relIndex, !.tableId = target, !.reverse = reverse],
                   updateRelationCardinalityOf(recordHistoryOf(Memory),
                                               relIndex, reverse, fks, target))

\* the object graphs JSON.parse builds from the files that are loaded
MemFiles ==
  {[tables |-> New("tables", <<>>), relations |-> New("relations", <<>>)],
   [tables |-> New("tables",
                   <<New("users", <<New("users.columns", <<New("users.id", <<>>)>>)>>),
                     New("posts", <<New("posts.columns", <<New("posts.user_id", <<>>)>>)>>)>>),
    relations |-> New("relations",
                      <<New("relation", <<New("from", <<>>), New("to", <<>>)>>)>>)]}

MemImportProject ==
  \E json \in MemFiles :
    MemApply(Op("importProject"),
             [Memory EXCEPT !.tables = json.tables, !.relations = json.relations])

MemRecordHistory ==
  /\ Recording
  /\ MemApply(Op("recordHistory"), recordHistoryOf(Memory))

MemUndo ==
  MemApply([Op("undo") EXCEPT !.missing = (Len(history.past) = 0)], undoOf(Memory))

MemRedo ==
  MemApply([Op("redo") EXCEPT !.missing = (Len(history.future) = 0)], redoOf(Memory))

MemInit ==
  /\ tables = [id |-> Address(1), val |-> FALSE, kids |-> <<>>]
  /\ relations = [id |-> Address(2), val |-> FALSE, kids |-> <<>>]
  /\ history = [past |-> <<>>, future |-> <<>>]
  /\ activeLink = Null
  /\ selected = <<>>
  /\ selectedRelationId = Null
  /\ uuid = 0
  /\ viewport = DefaultViewport
  /\ pending = <<>>
  /\ lastOp = Op("init")
  /\ pre = [restored |-> FALSE]
  /\ steps = 0
  /\ clock = 0
  /\ calls = <<>>

MemNext ==
  \/ MemAddTable
  \/ MemRenameTable
  \/ MemAddColumn
  \/ MemUpdateColumn
  \/ MemRemoveColumn
  \/ MemToggleColumnFlag
  \/ MemUpdateTablePosition
  \/ MemCommitRelation
  \/ MemRemoveTable
  \/ MemDeleteSelected
  \/ MemDeleteTable
  \/ MemDeleteRelation
  \/ MemUpdateRelationCardinality
  \/ MemImportProject
  \/ MemRecordHistory
  \/ MemUndo
  \/ MemRedo

MemSpec == MemInit /\ [][MemNext]_vars

\* the stored snapshots and the live graph in the order of the edits
Timeline(v) == v.past \o <<v.live>> \o v.future

\* what a step may do to the stacks: leave them alone, push the value the
\* live graph had onto past, or move along the timeline (undo, redo)
StacksKept(before, after) ==
  \/ after.past = before.past /\ after.future = before.future
  \/ after.past = Append(before.past, before.live)
  \/ Timeline(after) = Timeline(before)

\* C27: no snapshot stored in past or future holds an object that the live
\* graph holds too, and no operation changes the value of a snapshot that
\* stays stored: the values in the stacks after a step are those before it,
\* but for the snapshot the step pushed or popped
C27_SnapshotsAreIsolated ==
  /\ []((Ids(tables) \cup Ids(relations)) \cap StoredIds(Memory) = {})
  /\ [][StacksKept(Values(Memory),
                   Values([tables |-> tables', relations |-> relations',
                           history |-> history']))]_vars

\* updateRelationCardinality assigned a column array in place on a live graph
\* that undo or redo had just restored from a stack, with snapshots stored
\* before it still in past
C27_Witness ==
  /\ lastOp.op = "updateRelationCardinality"
  /\ lastOp.tableId > 0
  /\ pre.restored
  /\ Len(history.past) > 1

====
